---- MODULE Spec2Model ----
(***************************************************************************)
(* State-machine model of azul's dom.rs: the arena-backed Dom builder      *)
(* (Dom::new, FromIterator, add_child, the builder mutators) and the       *)
(* classification pass Dom::into_ui_state with the global TAG_ID counter.  *)
(*                                                                         *)
(* A NodeId is modelled by its zero-based index; the arena's two parallel  *)
(* vectors are TLA+ sequences, so node i lives at position i + 1.          *)
(* Option<X> is modelled as a sequence of length <= 1.                     *)
(***************************************************************************)
EXTENDS Integers, Sequences, FiniteSets, TLC

\* ------------------------------------------------------------------ bounds

\* Largest number of nodes held by all live Doms together.
MaxNodes == 4
\* Largest number of Dom values alive at once (depth of the builder nesting).
MaxDepth == 2
\* Largest number of attributes (list entries, draggable, tab index) set on
\* the nodes of all live Doms together.
MaxAttrs == 1
\* Largest value the tag counter is driven to outside of a build.
MaxTagId == 4

\* ------------------------------------------------------------------ Option

None == << >>
Some(x) == << x >>
IsSome(o) == o # None
IsNone(o) == o = None
Unwrap(o) == o[1]

\* ------------------------------------------------------------------ values

\* The node types items are made of (Div and one Label), and the node type
\* Dom::new is driven with.
NodeTypes == {"Div", "Label"}
NewNodeTypes == {"Div"}
\* Strings used as ids and classes.
Strings == {"a"}
\* Callback function pointers and default-callback ids.
Callbacks == {"cb1"}
DefaultCallbackIds == {"dcb1"}
\* CSS overrides (override id, property).
CssOverrides == {<<"w", "px500">>}
\* Tab indices.
TabIndices == {<<"Auto">>}

\* EventFilter: <<category, kind>>; a Not filter is <<"Not", category, kind>>
\* with category "Hover" or "Focus".
HoverFilter(k) == <<"Hover", k>>
FocusFilter(k) == <<"Focus", k>>
NotFilter(n) == <<"Not">> \o n
WindowFilter(k) == <<"Window", k>>
DesktopFilter(k) == <<"Desktop", k>>

\* The event filter the builder is driven with.
EventFilters == { HoverFilter("MouseOver") }

\* enum On
MouseButtonKinds ==
    { "MouseOver", "MouseDown", "LeftMouseDown", "MiddleMouseDown",
      "RightMouseDown", "MouseUp", "LeftMouseUp", "MiddleMouseUp",
      "RightMouseUp", "MouseEnter", "MouseLeave", "Scroll" }
KeyKinds == { "TextInput", "VirtualKeyDown", "VirtualKeyUp" }
FileKinds == { "HoveredFile", "DroppedFile", "HoveredFileCancelled" }
FocusChangeKinds == { "FocusReceived", "FocusLost" }
OnVariants == MouseButtonKinds \cup KeyKinds \cup FileKinds \cup FocusChangeKinds

\* enum HoverEventFilter, FocusEventFilter, WindowEventFilter,
\* DesktopEventFilter
HoverEventFilters == MouseButtonKinds \cup KeyKinds \cup FileKinds
FocusEventFilters == MouseButtonKinds \cup KeyKinds \cup FocusChangeKinds
WindowEventFilters == MouseButtonKinds \cup KeyKinds \cup FileKinds
DesktopEventFilters ==
    { "DeviceAdded", "DeviceRemoved", "ControllerMotion", "AppSuspended",
      "AppResumed", "Awakened" }

\* enum NotEventFilter and enum EventFilter: every value of the type.
NotEventFilterValues ==
    { HoverFilter(k) : k \in HoverEventFilters }
        \cup { FocusFilter(k) : k \in FocusEventFilters }
EventFilterValues ==
    { HoverFilter(k) : k \in HoverEventFilters }
        \cup { NotFilter(n) : n \in NotEventFilterValues }
        \cup { FocusFilter(k) : k \in FocusEventFilters }
        \cup { WindowFilter(k) : k \in WindowEventFilters }
        \cup { DesktopFilter(k) : k \in DesktopEventFilters }

\* From<On> with every variant sent to the Hover category.
EventFilterFromOnAllHover(input) == HoverFilter(input)

\* impl From<On> for EventFilter
EventFilterFromOn(input) ==
    CASE input = "MouseOver"            -> HoverFilter("MouseOver")
      [] input = "MouseDown"            -> HoverFilter("MouseDown")
      [] input = "LeftMouseDown"        -> HoverFilter("LeftMouseDown")
      [] input = "MiddleMouseDown"      -> HoverFilter("MiddleMouseDown")
      [] input = "RightMouseDown"       -> HoverFilter("RightMouseDown")
      [] input = "MouseUp"              -> HoverFilter("MouseUp")
      [] input = "LeftMouseUp"          -> HoverFilter("LeftMouseUp")
      [] input = "MiddleMouseUp"        -> HoverFilter("MiddleMouseUp")
      [] input = "RightMouseUp"         -> HoverFilter("RightMouseUp")
      [] input = "MouseEnter"           -> HoverFilter("MouseEnter")
      [] input = "MouseLeave"           -> HoverFilter("MouseLeave")
      [] input = "Scroll"               -> HoverFilter("Scroll")
      [] input = "TextInput"            -> FocusFilter("TextInput")
      [] input = "VirtualKeyDown"       -> WindowFilter("VirtualKeyDown")
      [] input = "VirtualKeyUp"         -> WindowFilter("VirtualKeyUp")
      [] input = "HoveredFile"          -> HoverFilter("HoveredFile")
      [] input = "DroppedFile"          -> HoverFilter("DroppedFile")
      [] input = "HoveredFileCancelled" -> HoverFilter("HoveredFileCancelled")
      [] input = "FocusReceived"        -> FocusFilter("FocusReceived")
      [] input = "FocusLost"            -> FocusFilter("FocusLost")

\* HoverEventFilter::to_focus_event_filter
ToFocusEventFilter(self) ==
    CASE self = "MouseOver"            -> Some("MouseOver")
      [] self = "MouseDown"            -> Some("MouseDown")
      [] self = "LeftMouseDown"        -> Some("LeftMouseDown")
      [] self = "RightMouseDown"       -> Some("RightMouseDown")
      [] self = "MiddleMouseDown"      -> Some("MiddleMouseDown")
      [] self = "MouseUp"              -> Some("MouseUp")
      [] self = "LeftMouseUp"          -> Some("LeftMouseUp")
      [] self = "RightMouseUp"         -> Some("RightMouseUp")
      [] self = "MiddleMouseUp"        -> Some("MiddleMouseUp")
      [] self = "MouseEnter"           -> Some("MouseEnter")
      [] self = "MouseLeave"           -> Some("MouseLeave")
      [] self = "Scroll"               -> Some("Scroll")
      [] self = "TextInput"            -> Some("TextInput")
      [] self = "VirtualKeyDown"       -> Some("VirtualKeyDown")
      [] self = "VirtualKeyUp"         -> Some("VirtualKeyDown")
      [] self = "HoveredFile"          -> None
      [] self = "DroppedFile"          -> None
      [] self = "HoveredFileCancelled" -> None

\* to_hover_event_filter with no arm returning None.
ToHoverEventFilterAlwaysSome(self) == Some(self)

\* WindowEventFilter::to_hover_event_filter
ToHoverEventFilter(self) ==
    CASE self = "MouseOver"            -> Some("MouseOver")
      [] self = "MouseDown"            -> Some("MouseDown")
      [] self = "LeftMouseDown"        -> Some("LeftMouseDown")
      [] self = "RightMouseDown"       -> Some("RightMouseDown")
      [] self = "MiddleMouseDown"      -> Some("MiddleMouseDown")
      [] self = "MouseUp"              -> Some("MouseUp")
      [] self = "LeftMouseUp"          -> Some("LeftMouseUp")
      [] self = "RightMouseUp"         -> Some("RightMouseUp")
      [] self = "MiddleMouseUp"        -> Some("MiddleMouseUp")
      [] self = "Scroll"               -> Some("Scroll")
      [] self = "TextInput"            -> Some("TextInput")
      [] self = "VirtualKeyDown"       -> Some("VirtualKeyDown")
      [] self = "VirtualKeyUp"         -> Some("VirtualKeyDown")
      [] self = "HoveredFile"          -> Some("HoveredFile")
      [] self = "DroppedFile"          -> Some("DroppedFile")
      [] self = "HoveredFileCancelled" -> Some("HoveredFileCancelled")
      [] self = "MouseEnter"           -> None
      [] self = "MouseLeave"           -> None

\* ------------------------------------------------------------------ nodes

\* id_tree::Node with every pointer empty.
EmptyNode ==
    [ parent |-> None, previous_sibling |-> None, next_sibling |-> None,
      first_child |-> None, last_child |-> None ]

\* impl Default for NodeData
NodeDataDefault ==
    [ node_type |-> "Div", ids |-> << >>, classes |-> << >>,
      callbacks |-> << >>, default_callback_ids |-> << >>,
      dynamic_css_overrides |-> << >>, draggable |-> FALSE,
      tab_index |-> None ]

\* NodeData::new
NodeDataNew(node_type) == [NodeDataDefault EXCEPT !.node_type = node_type]

\* ------------------------------------------------------------------ hash

\* What a Hash impl hands to the Hasher is a sequence of writes <<kind, v>>:
\* a discriminant, the bytes of a str, a usize (a number, or a function
\* pointer or id known by its name), a u8.
WriteDiscriminant(v) == << <<"discriminant", v>> >>
WriteUsize(v) == << <<"usize", v>> >>
WritePointer(v) == << <<"pointer", v>> >>
WriteU8(v) == << <<"u8", v>> >>
\* impl Hash for str: the bytes, then 0xff.
HashStr(s) == << <<"bytes", s>> >> \o WriteU8(255)

\* The concatenation of f(e) for the entries e of a list, in order.
RECURSIVE HashEach(_, _)
HashEach(f(_), list) ==
    IF list = << >> THEN << >> ELSE f(Head(list)) \o HashEach(f, Tail(list))

\* impl Hash for NodeType: the discriminant, then what the variant holds
\* (nothing for Div).
HashNodeType(node_type) ==
    WriteDiscriminant(node_type)
        \o (IF node_type = "Div" THEN << >> ELSE HashStr(node_type))

\* derive(Hash) for EventFilter and the enums inside it: one discriminant
\* per level.
HashEventFilter(filter) == HashEach(WriteDiscriminant, filter)
\* impl Hash for Callback: the function pointer as usize.
HashCallback(callback) == WritePointer(callback)
\* Hash for the tuples held by callbacks, default_callback_ids and
\* dynamic_css_overrides: the first entry, then the second.
HashCallbackEntry(entry) == HashEventFilter(entry[1]) \o HashCallback(entry[2])
HashDefaultCallbackEntry(entry) == HashEventFilter(entry[1]) \o WritePointer(entry[2])
HashCssOverride(entry) == HashStr(entry[1]) \o WriteDiscriminant(entry[2])
\* derive(Hash) for TabIndex: the discriminant, then the usize of
\* OverrideInParent and Global.
HashTabIndex(tab_index) ==
    WriteDiscriminant(tab_index[1])
        \o (IF Len(tab_index) > 1 THEN WriteUsize(tab_index[2]) ELSE << >>)
\* Hash for Option<TabIndex>
HashOptionTabIndex(o) ==
    IF IsSome(o)
    THEN WriteDiscriminant("Some") \o HashTabIndex(Unwrap(o))
    ELSE WriteDiscriminant("None")
\* Hash for bool
HashBool(b) == WriteU8(IF b THEN 1 ELSE 0)

\* impl PartialEq for NodeData with the draggable flag left out.
NodeDataEqIgnoresDraggable(self, other) ==
    /\ self.node_type = other.node_type
    /\ self.ids = other.ids
    /\ self.classes = other.classes
    /\ self.callbacks = other.callbacks
    /\ self.default_callback_ids = other.default_callback_ids
    /\ self.dynamic_css_overrides = other.dynamic_css_overrides
    /\ self.tab_index = other.tab_index

\* impl PartialEq for NodeData
NodeDataEq(self, other) ==
    /\ self.node_type = other.node_type
    /\ self.ids = other.ids
    /\ self.classes = other.classes
    /\ self.callbacks = other.callbacks
    /\ self.default_callback_ids = other.default_callback_ids
    /\ self.dynamic_css_overrides = other.dynamic_css_overrides
    /\ self.draggable = other.draggable
    /\ self.tab_index = other.tab_index

\* impl Hash for NodeData with the loop over the ids left out.
HashNodeDataSkipsIds(self) ==
    HashNodeType(self.node_type)
        \o HashEach(HashStr, self.classes)
        \o HashEach(HashCallbackEntry, self.callbacks)
        \o HashEach(HashDefaultCallbackEntry, self.default_callback_ids)
        \o HashEach(HashCssOverride, self.dynamic_css_overrides)
        \o HashBool(self.draggable)
        \o HashOptionTabIndex(self.tab_index)

\* impl Hash for NodeData: the writes, in the order they are made.
HashNodeData(self) ==
    HashNodeType(self.node_type)
        \o HashEach(HashStr, self.ids)
        \o HashEach(HashStr, self.classes)
        \o HashEach(HashCallbackEntry, self.callbacks)
        \o HashEach(HashDefaultCallbackEntry, self.default_callback_ids)
        \o HashEach(HashCssOverride, self.dynamic_css_overrides)
        \o HashBool(self.draggable)
        \o HashOptionTabIndex(self.tab_index)

\* Every name a write can carry, in a fixed order; a name stands for the
\* number it is in memory (discriminant, bytes, pointer).
WriteNames ==
    << "Div", "Label", "a", "b", "cb1", "cb2", "dcb1", "dcb2",
       "w", "h", "px500", "px20", "Some", "None", "Auto",
       "OverrideInParent", "Global", "Hover", "Not", "Focus", "Window",
       "Desktop", "MouseOver", "MouseDown", "LeftMouseDown",
       "MiddleMouseDown", "RightMouseDown", "MouseUp", "LeftMouseUp",
       "MiddleMouseUp", "RightMouseUp", "MouseEnter", "MouseLeave",
       "Scroll", "TextInput", "VirtualKeyDown", "VirtualKeyUp",
       "HoveredFile", "DroppedFile", "HoveredFileCancelled",
       "FocusReceived", "FocusLost", "DeviceAdded", "DeviceRemoved",
       "ControllerMotion", "AppSuspended", "AppResumed", "Awakened" >>
WriteKinds == << "discriminant", "bytes", "pointer", "usize", "u8" >>
IndexIn(seq, v) == CHOOSE i \in 1..Len(seq) : seq[i] = v
WriteCode(write) ==
    IndexIn(WriteKinds, write[1])
        + Len(WriteKinds)
            * (IF write[1] \in {"usize", "u8"} THEN write[2]
               ELSE IndexIn(WriteNames, write[2]))

\* The width of the hasher state. DomHash holds a u64; the model keeps 16
\* bits of it.
HashBits == 16
HashModulus == 2 ^ HashBits

\* HashAlgorithm::default() and Hasher::finish after the writes: every write
\* is mixed into the state left by the writes before it.
RECURSIVE HasherFinish(_, _)
HasherFinish(state, writes) ==
    IF writes = << >> THEN state
    ELSE HasherFinish((state * 31 + WriteCode(Head(writes))) % HashModulus,
                      Tail(writes))
HasherDefault == 0

\* NodeData::calculate_node_data_hash
CalculateNodeDataHash(self) ==
    [ DomHash |-> HasherFinish(HasherDefault, HashNodeData(self)) ]

\* ------------------------------------------------------------------ arena

\* Arena::with_capacity: an arena holding no node.
ArenaEmpty == [ node_layout |-> << >>, node_data |-> << >> ]

\* Arena::len
ArenaLen(arena) == Len(arena.node_layout)

\* Arena::new_node: appends a slot with empty pointers; the new NodeId is the
\* old length.
ArenaNewNode(arena, data) ==
    [ node_layout |-> Append(arena.node_layout, EmptyNode),
      node_data |-> Append(arena.node_data, data) ]

\* Arena::append_arena: concatenates both vectors, rewriting nothing.
AppendArena(arena, other) ==
    [ node_layout |-> arena.node_layout \o other.node_layout,
      node_data |-> arena.node_data \o other.node_data ]

\* ------------------------------------------------------------------ Dom

\* Dom::len
DomLen(dom) == ArenaLen(dom.arena)

\* Dom::with_capacity (Dom::new calls it with cap = 0).
DomWithCapacity(node_type) ==
    LET arena == ArenaNewNode(ArenaEmpty, NodeDataNew(node_type))
        root == ArenaLen(arena) - 1
    IN  [ arena |-> arena, root |-> root, head |-> root ]

DomNew(node_type) == DomWithCapacity(node_type)

\* FromIterNode with the previous sibling one index too low.
FromIterNodeOffByOne(idx) ==
    [ parent |-> Some(0),
      previous_sibling |-> IF idx = 0 THEN None ELSE Some(idx - 1),
      next_sibling |-> Some(idx + 2),
      last_child |-> None,
      first_child |-> None ]

\* The Node pushed for the item met when `idx` items were pushed before it.
FromIterNode(idx) ==
    [ parent |-> Some(0),
      previous_sibling |-> IF idx = 0 THEN None ELSE Some(idx),
      next_sibling |-> Some(idx + 2),
      last_child |-> None,
      first_child |-> None ]

\* FromIterFixup without its `if nodes_len > 1`.
FromIterFixupUnconditional(node_layout) ==
    [node_layout EXCEPT ![Len(node_layout)].next_sibling = None,
                        ![1].last_child = Some(Len(node_layout) - 1),
                        ![1].first_child = Some(1)]

\* The root's links once all items are pushed (nodes_len > 1 only).
FromIterFixup(node_layout) ==
    LET nodes_len == Len(node_layout)
    IN  IF nodes_len > 1
        THEN [node_layout EXCEPT ![nodes_len].next_sibling = None,
                                 ![1].last_child = Some(nodes_len - 1),
                                 ![1].first_child = Some(1)]
        ELSE node_layout

\* DomFromIterNodeData without the "root" node pushed first.
DomFromIterNodeDataNoRoot(items) ==
    [ head |-> 0, root |-> 0,
      arena |-> [ node_data |-> items,
                  node_layout |-> [k \in 1..Len(items) |-> EmptyNode] ] ]

\* impl FromIterator<NodeData<T>> for Dom<T>
DomFromIterNodeData(items) ==
    LET node_data == <<NodeDataNew("Div")>> \o items
        node_layout == <<EmptyNode>> \o [k \in 1..Len(items) |-> FromIterNode(k - 1)]
    IN  [ head |-> 0, root |-> 0,
          arena |-> [ node_data |-> node_data,
                      node_layout |-> FromIterFixup(node_layout) ] ]

\* impl FromIterator<NodeType<T>> for Dom<T>
DomFromIterNodeType(types) ==
    DomFromIterNodeData([k \in 1..Len(types) |-> [NodeDataDefault EXCEPT !.node_type = types[k]]])

\* ------------------------------------------------------------------ add_child

\* `if let Some(x) = opt.as_mut() { *x += self_len }`
OffsetSome(opt, self_len) ==
    IF IsSome(opt) THEN Some(Unwrap(opt) + self_len) ELSE opt

\* The loop state of add_child: st.self_layout and st.child_layout are the two
\* node_layout vectors, st.last_sibling the local of that name.

\* PreviousSiblingBlock linking the donor root behind head's first child
\* instead of head's last child.
PreviousSiblingBlockLinksFirst(st, node_id, head, self_len) ==
    LET node == st.child_layout[node_id + 1]
    IN  IF IsSome(node.previous_sibling)
        THEN [st EXCEPT !.child_layout[node_id + 1].previous_sibling =
                            Some(Unwrap(node.previous_sibling) + self_len)]
        ELSE LET last_child == st.self_layout[head + 1].last_child
                 first_child == st.self_layout[head + 1].first_child
             IN  IF IsSome(last_child) /\ IsNone(node.parent)
                 THEN [st EXCEPT
                        !.child_layout[node_id + 1].previous_sibling = last_child,
                        !.self_layout[Unwrap(first_child) + 1].next_sibling =
                            Some(node_id + self_len)]
                 ELSE st

\* Loop body, first block: previous_sibling.
PreviousSiblingBlock(st, node_id, head, self_len) ==
    LET node == st.child_layout[node_id + 1]
    IN  IF IsSome(node.previous_sibling)
        THEN [st EXCEPT !.child_layout[node_id + 1].previous_sibling =
                            Some(Unwrap(node.previous_sibling) + self_len)]
        ELSE LET last_child == st.self_layout[head + 1].last_child
             IN  IF IsSome(last_child) /\ IsNone(node.parent)
                 THEN [st EXCEPT
                        !.child_layout[node_id + 1].previous_sibling = last_child,
                        !.self_layout[Unwrap(last_child) + 1].next_sibling =
                            Some(node_id + self_len)]
                 ELSE st

\* ParentBlock without `node_id_child.parent = Some(self.head)`.
ParentBlockKeepsNone(st, node_id, head, self_len) ==
    IF IsSome(st.child_layout[node_id + 1].parent)
    THEN [st EXCEPT !.child_layout[node_id + 1].parent = Some(Unwrap(@) + self_len)]
    ELSE [st EXCEPT
            !.last_sibling = IF IsNone(st.child_layout[node_id + 1].next_sibling)
                             THEN Some(node_id) ELSE @]

\* Loop body, second block: parent.
ParentBlock(st, node_id, head, self_len) ==
    LET node == st.child_layout[node_id + 1]
    IN  IF IsSome(node.parent)
        THEN [st EXCEPT !.child_layout[node_id + 1].parent =
                            Some(Unwrap(node.parent) + self_len)]
        ELSE [st EXCEPT
                !.last_sibling = IF IsNone(node.next_sibling)
                                 THEN Some(node_id) ELSE @,
                !.child_layout[node_id + 1].parent = Some(head)]

\* NextSiblingBlock and FirstChildBlock without the `+= self_len`.
NextSiblingBlockNoOffset(st, node_id, self_len) == st
FirstChildBlockNoOffset(st, node_id, self_len) == st

\* Loop body, third to fifth block: next_sibling, first_child, last_child.
NextSiblingBlock(st, node_id, self_len) ==
    [st EXCEPT !.child_layout[node_id + 1].next_sibling = OffsetSome(@, self_len)]

FirstChildBlock(st, node_id, self_len) ==
    [st EXCEPT !.child_layout[node_id + 1].first_child = OffsetSome(@, self_len)]

LastChildBlock(st, node_id, self_len) ==
    [st EXCEPT !.child_layout[node_id + 1].last_child = OffsetSome(@, self_len)]

\* One iteration of `for node_id in 0..child_len`.
AddChildStep(st, node_id, head, self_len) ==
    LastChildBlock(
        FirstChildBlock(
            NextSiblingBlock(
                ParentBlock(
                    PreviousSiblingBlock(st, node_id, head, self_len),
                    node_id, head, self_len),
                node_id, self_len),
            node_id, self_len),
        node_id, self_len)

\* The iterations node_id = from .. child_len - 1, in order.
RECURSIVE AddChildLoop(_, _, _, _, _)
AddChildLoop(st, from, child_len, head, self_len) ==
    IF from >= child_len
    THEN st
    ELSE AddChildLoop(AddChildStep(st, from, head, self_len),
                      from + 1, child_len, head, self_len)

\* AddChildLinkHead with first_child assigned instead of get_or_insert.
AddChildLinkHeadOverwritesFirst(st, head, self_len) ==
    [st EXCEPT
        !.self_layout[head + 1].first_child = Some(self_len),
        !.self_layout[head + 1].last_child =
            Some(Unwrap(st.last_sibling) + self_len)]

\* After the loop: head's first_child (get_or_insert) and last_child
\* (last_sibling.unwrap() + self_len).
AddChildLinkHead(st, head, self_len) ==
    [st EXCEPT
        !.self_layout[head + 1].first_child =
            IF IsNone(@) THEN Some(self_len) ELSE @,
        !.self_layout[head + 1].last_child =
            Some(Unwrap(st.last_sibling) + self_len)]

\* The loop state before the first iteration.
AddChildStart(self, child) ==
    [ self_layout |-> self.arena.node_layout,
      child_layout |-> child.arena.node_layout,
      last_sibling |-> None ]

\* AddChildAppend without the append_arena call.
AddChildAppendSkipped(self, child, st) ==
    [self EXCEPT !.arena.node_layout = st.self_layout]

\* AddChildAppend appending the donor's layout as it was before the loop.
AddChildAppendUnrebased(self, child, st) ==
    [self EXCEPT !.arena =
        AppendArena([self.arena EXCEPT !.node_layout = st.self_layout], child.arena)]

\* `(&mut *self_arena).append_arena(child_arena)` on the rewritten layouts.
AddChildAppend(self, child, st) ==
    [self EXCEPT !.arena =
        AppendArena([self.arena EXCEPT !.node_layout = st.self_layout],
                    [child.arena EXCEPT !.node_layout = st.child_layout])]

\* Dom::add_child: the value of `self` after self.add_child(child).
AddChild(self, child) ==
    IF ArenaLen(child.arena) = 0 THEN self
    ELSE IF ArenaLen(self.arena) = 0 THEN child
    ELSE AddChildAppend(self, child,
            AddChildLinkHead(
                AddChildLoop(AddChildStart(self, child), 0, ArenaLen(child.arena),
                             self.head, ArenaLen(self.arena)),
                self.head, ArenaLen(self.arena)))

\* impl FromIterator<Dom<T>> for Dom<T>: Dom::new(Div), then add_child of
\* every item in order.
RECURSIVE DomFromIterDomLoop(_, _)
DomFromIterDomLoop(c, doms) ==
    IF doms = << >> THEN c
    ELSE DomFromIterDomLoop(AddChild(c, Head(doms)), Tail(doms))

DomFromIterDom(doms) == DomFromIterDomLoop(DomNew("Div"), doms)

\* The panics of add_child on two non-empty Doms: indexing node_layout with
\* self.head or with head's last_child out of bounds, and
\* last_sibling.unwrap() on None.
AddChildPanics(self, child) ==
    /\ ArenaLen(child.arena) # 0
    /\ ArenaLen(self.arena) # 0
    /\ \/ self.head >= ArenaLen(self.arena)
       \/ /\ IsSome(self.arena.node_layout[self.head + 1].last_child)
          /\ Unwrap(self.arena.node_layout[self.head + 1].last_child) >= ArenaLen(self.arena)
       \/ IsNone(AddChildLoop(AddChildStart(self, child), 0, ArenaLen(child.arena),
                              self.head, ArenaLen(self.arena)).last_sibling)

\* ------------------------------------------------------------------ mutators

\* `self.arena.node_data[self.head]` panics on an index out of bounds.
HeadOutOfBounds(dom) == dom.head >= ArenaLen(dom.arena)

\* self.arena.node_data[self.head], updated.
AddId(dom, id) ==
    [dom EXCEPT !.arena.node_data[dom.head + 1].ids = Append(@, id)]

\* add_class with the class put in front of the list.
AddClassPushFront(dom, class) ==
    [dom EXCEPT !.arena.node_data[dom.head + 1].classes = <<class>> \o @]

AddClass(dom, class) ==
    [dom EXCEPT !.arena.node_data[dom.head + 1].classes = Append(@, class)]

AddCallback(dom, on, callback) ==
    [dom EXCEPT !.arena.node_data[dom.head + 1].callbacks = Append(@, <<on, callback>>)]

AddDefaultCallbackId(dom, on, id) ==
    [dom EXCEPT !.arena.node_data[dom.head + 1].default_callback_ids = Append(@, <<on, id>>)]

AddTabIndex(dom, tab_index) ==
    [dom EXCEPT !.arena.node_data[dom.head + 1].tab_index = Some(tab_index)]

AddCssOverride(dom, override) ==
    [dom EXCEPT !.arena.node_data[dom.head + 1].dynamic_css_overrides = Append(@, override)]

SetDraggable(dom, draggable) ==
    [dom EXCEPT !.arena.node_data[dom.head + 1].draggable = draggable]

\* with_id, with_class, with_callback, with_css_override, with_tab_index and
\* is_draggable: the add_/set_ mutator on `mut self`, then `self` returned.
WithId(dom, id) == AddId(dom, id)
WithClass(dom, class) == AddClass(dom, class)
WithCallback(dom, on, callback) == AddCallback(dom, on, callback)
WithCssOverride(dom, override) == AddCssOverride(dom, override)
WithTabIndex(dom, tab_index) == AddTabIndex(dom, tab_index)
IsDraggable(dom, draggable) == SetDraggable(dom, draggable)

\* ------------------------------------------------------------------ UiState

\* BTreeMap::new and BTreeMap::insert (an insert under a present key replaces
\* its value).
EmptyMap == << >>
\* BTreeMap::insert that keeps the value of a present key.
MapInsertKeepsOld(m, k, v) == m @@ (k :> v)

MapInsert(m, k, v) == (k :> v) @@ m

\* get_single_enum_type!: EventFilter::as_*_event_filter
AsHoverEventFilter(f) == IF f[1] = "Hover" THEN Some(f[2]) ELSE None
AsFocusEventFilter(f) == IF f[1] = "Focus" THEN Some(f[2]) ELSE None
AsNotEventFilter(f) == IF f[1] = "Not" THEN Some(<<f[2], f[3]>>) ELSE None
AsWindowEventFilter(f) == IF f[1] = "Window" THEN Some(f[2]) ELSE None
AsDesktopEventFilter(f) == IF f[1] = "Desktop" THEN Some(f[2]) ELSE None

\* FilterFunc with the window tables filled through as_desktop_event_filter
\* and the desktop tables through as_window_event_filter.
FilterFuncWindowDesktopSwapped(table, f) ==
    CASE table \in {"hover_callbacks", "hover_default_callbacks"} -> AsHoverEventFilter(f)
      [] table \in {"focus_callbacks", "focus_default_callbacks"} -> AsFocusEventFilter(f)
      [] table \in {"not_callbacks", "not_default_callbacks"} -> AsNotEventFilter(f)
      [] table \in {"window_callbacks", "window_default_callbacks"} -> AsDesktopEventFilter(f)
      [] table \in {"desktop_callbacks", "desktop_default_callbacks"} -> AsWindowEventFilter(f)

\* The projection a table is filled through.
FilterFunc(table, f) ==
    CASE table \in {"hover_callbacks", "hover_default_callbacks"} -> AsHoverEventFilter(f)
      [] table \in {"focus_callbacks", "focus_default_callbacks"} -> AsFocusEventFilter(f)
      [] table \in {"not_callbacks", "not_default_callbacks"} -> AsNotEventFilter(f)
      [] table \in {"window_callbacks", "window_default_callbacks"} -> AsWindowEventFilter(f)
      [] table \in {"desktop_callbacks", "desktop_default_callbacks"} -> AsDesktopEventFilter(f)

\* data_source.iter().filter_map(..).collect::<BTreeMap<_, _>>() over the
\* entries from position `from` on: entries are inserted in order.
RECURSIVE CollectCallbacks(_, _, _, _)
CollectCallbacks(m, data_source, from, table) ==
    IF from > Len(data_source)
    THEN m
    ELSE CollectCallbacks(
             IF IsSome(FilterFunc(table, data_source[from][1]))
             THEN MapInsert(m, Unwrap(FilterFunc(table, data_source[from][1])),
                            data_source[from][2])
             ELSE m,
             data_source, from + 1, table)

\* NewTagId without the add: the counter is read and left as it is.
NewTagIdNoIncrement(ns) == ns

\* new_tag_id: TAG_ID.fetch_add(1), the old value returned.  The loop state
\* ns carries the tables (ns.ui), the global counter (ns.TAG_ID) and the
\* local node_tag_id.
NewTagId(ns) == [ns EXCEPT !.TAG_ID = @ + 1]

\* NodeTagId that takes a new tag whether or not the node has one.
NodeTagIdAlwaysNew(ns) ==
    [ns EXCEPT !.TAG_ID = @ + 1, !.node_tag_id = Some(ns.TAG_ID)]

\* `let tag_id = node_tag_id.unwrap_or_else(|| new_tag_id());
\*  node_tag_id = Some(tag_id);`
NodeTagId(ns) ==
    IF IsSome(ns.node_tag_id)
    THEN ns
    ELSE [NewTagId(ns) EXCEPT !.node_tag_id = Some(ns.TAG_ID)]

\* InsertNodeCallbacks that allocates a tag like the arm with a node_tag_id.
InsertNodeCallbacksAlsoTagged(ns, node_id, table, node_hover_callbacks) ==
    IF node_hover_callbacks # << >>
    THEN [ns EXCEPT !.ui[table] = ((node_id :> node_hover_callbacks) @@ @),
                    !.TAG_ID = IF IsSome(ns.node_tag_id) THEN @ ELSE @ + 1,
                    !.node_tag_id = IF IsSome(@) THEN @ ELSE Some(ns.TAG_ID)]
    ELSE ns

\* `if !node_hover_callbacks.is_empty() { $final_callback_list.insert(..) }`
InsertNodeCallbacks(ns, node_id, table, node_hover_callbacks) ==
    IF node_hover_callbacks # EmptyMap
    THEN [ns EXCEPT !.ui[table] = MapInsert(@, node_id, node_hover_callbacks)]
    ELSE ns

\* The same, followed by the tag of the arm with a node_tag_id.
InsertNodeCallbacksTagged(ns, node_id, table, node_hover_callbacks) ==
    IF node_hover_callbacks # EmptyMap
    THEN NodeTagId([ns EXCEPT !.ui[table] = MapInsert(@, node_id, node_hover_callbacks)])
    ELSE ns

\* filter_and_insert_callbacks!, the arm without a node_tag_id.
FilterAndInsertCallbacks(ns, node_id, data_source, table) ==
    InsertNodeCallbacks(ns, node_id, table,
                        CollectCallbacks(EmptyMap, data_source, 1, table))

\* filter_and_insert_callbacks!, the arm with a node_tag_id.
FilterAndInsertCallbacksTagged(ns, node_id, data_source, table) ==
    InsertNodeCallbacksTagged(ns, node_id, table,
                              CollectCallbacks(EmptyMap, data_source, 1, table))

\* `if !data.callbacks.is_empty() { ... }`: Hover, Focus, Not, Window, Desktop.
InsertCallbacks(ns, node_id, data) ==
    IF data.callbacks = << >> THEN ns
    ELSE FilterAndInsertCallbacks(
           FilterAndInsertCallbacks(
             FilterAndInsertCallbacksTagged(
               FilterAndInsertCallbacksTagged(
                 FilterAndInsertCallbacksTagged(
                   ns, node_id, data.callbacks, "hover_callbacks"),
                 node_id, data.callbacks, "focus_callbacks"),
               node_id, data.callbacks, "not_callbacks"),
             node_id, data.callbacks, "window_callbacks"),
           node_id, data.callbacks, "desktop_callbacks")

\* InsertDefaultCallbacks that leaves the default callbacks out.
InsertDefaultCallbacksSkipped(ns, node_id, data) == ns

\* `if !data.default_callback_ids.is_empty() { ... }`: the same five.
InsertDefaultCallbacks(ns, node_id, data) ==
    IF data.default_callback_ids = << >> THEN ns
    ELSE FilterAndInsertCallbacks(
           FilterAndInsertCallbacks(
             FilterAndInsertCallbacksTagged(
               FilterAndInsertCallbacksTagged(
                 FilterAndInsertCallbacksTagged(
                   ns, node_id, data.default_callback_ids, "hover_default_callbacks"),
                 node_id, data.default_callback_ids, "focus_default_callbacks"),
               node_id, data.default_callback_ids, "not_default_callbacks"),
             node_id, data.default_callback_ids, "window_default_callbacks"),
           node_id, data.default_callback_ids, "desktop_default_callbacks")

\* RecordDraggable with the entry keyed by the next value of the counter.
RecordDraggableKeyedByNext(ns, node_id) ==
    [ns EXCEPT !.ui.draggable_tags = MapInsert(@, ns.TAG_ID, node_id)]

\* `draggable_tags.insert(tag_id, node_id)` once the node has its tag.
RecordDraggable(ns, node_id) ==
    [ns EXCEPT !.ui.draggable_tags = MapInsert(@, Unwrap(ns.node_tag_id), node_id)]

\* `if data.draggable { ... }`
InsertDraggable(ns, node_id, data) ==
    IF data.draggable THEN RecordDraggable(NodeTagId(ns), node_id) ELSE ns

\* RecordTabIndex with the entry keyed by the node id.
RecordTabIndexKeyedByNode(ns, node_id, tab_index) ==
    [ns EXCEPT !.ui.tab_index_tags = MapInsert(@, node_id, <<node_id, tab_index>>)]

\* `tab_index_tags.insert(tag_id, (node_id, tab_index))` once the node has
\* its tag.
RecordTabIndex(ns, node_id, tab_index) ==
    [ns EXCEPT !.ui.tab_index_tags =
        MapInsert(@, Unwrap(ns.node_tag_id), <<node_id, tab_index>>)]

\* `if let Some(tab_index) = data.tab_index { ... }`
InsertTabIndex(ns, node_id, data) ==
    IF IsSome(data.tab_index)
    THEN RecordTabIndex(NodeTagId(ns), node_id, Unwrap(data.tab_index))
    ELSE ns

\* InsertTagMaps with both inserts keyed by the node id.
InsertTagMapsKeyedByNode(ns, node_id) ==
    IF IsSome(ns.node_tag_id)
    THEN [ns EXCEPT
            !.ui.tag_ids_to_node_ids = MapInsert(@, node_id, Unwrap(ns.node_tag_id)),
            !.ui.node_ids_to_tag_ids = MapInsert(@, node_id, Unwrap(ns.node_tag_id))]
    ELSE ns

\* `if let Some(tag_id) = node_tag_id { ... }`
InsertTagMaps(ns, node_id) ==
    IF IsSome(ns.node_tag_id)
    THEN [ns EXCEPT
            !.ui.tag_ids_to_node_ids = MapInsert(@, Unwrap(ns.node_tag_id), node_id),
            !.ui.node_ids_to_tag_ids = MapInsert(@, node_id, Unwrap(ns.node_tag_id))]
    ELSE ns

\* data.dynamic_css_overrides.iter().cloned().collect(): a map from override
\* id to property, the entries inserted in order.
RECURSIVE CollectOverrides(_, _, _)
CollectOverrides(m, overrides, from) ==
    IF from > Len(overrides)
    THEN m
    ELSE CollectOverrides(MapInsert(m, overrides[from][1], overrides[from][2]),
                          overrides, from + 1)

\* `if !data.dynamic_css_overrides.is_empty() { ... }`
InsertCssOverrides(ns, node_id, data) ==
    IF data.dynamic_css_overrides # << >>
    THEN [ns EXCEPT !.ui.dynamic_css_overrides =
            MapInsert(@, node_id, CollectOverrides(EmptyMap, data.dynamic_css_overrides, 1))]
    ELSE ns

\* `let mut node_tag_id = None;` at the top of the loop body.
NodeStart(ns) == [ns EXCEPT !.node_tag_id = None]

\* The body of `for node_id in arena.linear_iter()` for a node with payload
\* `data`.
ProcessNodeData(ns, node_id, data) ==
    InsertCssOverrides(
      InsertTagMaps(
        InsertTabIndex(
          InsertDraggable(
            InsertDefaultCallbacks(
              InsertCallbacks(NodeStart(ns), node_id, data),
              node_id, data),
            node_id, data),
          node_id, data),
        node_id),
      node_id, data)

ProcessNode(ns, arena, node_id) ==
    ProcessNodeData(ns, node_id, arena.node_data[node_id + 1])

\* The tables of into_ui_state before the loop.
EmptyTables ==
    [ tab_index_tags |-> EmptyMap, draggable_tags |-> EmptyMap,
      tag_ids_to_node_ids |-> EmptyMap, node_ids_to_tag_ids |-> EmptyMap,
      dynamic_css_overrides |-> EmptyMap,
      hover_callbacks |-> EmptyMap, hover_default_callbacks |-> EmptyMap,
      focus_callbacks |-> EmptyMap, focus_default_callbacks |-> EmptyMap,
      not_callbacks |-> EmptyMap, not_default_callbacks |-> EmptyMap,
      window_callbacks |-> EmptyMap, window_default_callbacks |-> EmptyMap,
      desktop_callbacks |-> EmptyMap, desktop_default_callbacks |-> EmptyMap ]

\* Arena::linear_iter: the NodeIds 0 .. len - 1 in index order.
LinearIter(arena) == [k \in 1..ArenaLen(arena) |-> k - 1]

\* ResetTagId without the swap: the counter keeps its value.
ResetTagIdKept(tag_id) == tag_id

\* `TAG_ID.swap(1, ..)`: the value the counter holds when the loop starts.
ResetTagId(tag_id) == 1

\* The loop over linear_iter from position `from` on.
RECURSIVE UiStateLoop(_, _, _, _)
\* UiStateLoop walking linear_iter from its last NodeId to its first.
UiStateLoopBackwards(ns, arena, order, from) ==
    IF from > Len(order)
    THEN ns
    ELSE UiStateLoop(ProcessNode(ns, arena, order[Len(order) - from + 1]),
                     arena, order, from + 1)

UiStateLoop(ns, arena, order, from) ==
    IF from > Len(order)
    THEN ns
    ELSE UiStateLoop(ProcessNode(ns, arena, order[from]), arena, order, from + 1)

\* The loop state when the loop starts.
UiStateStart(tag_id) ==
    [ ui |-> EmptyTables, TAG_ID |-> ResetTagId(tag_id), node_tag_id |-> None ]

\* `UiState { dom: self, .. }` and the value TAG_ID is left with.
UiStateResult(dom, ns) ==
    [ ui_state |-> [dom |-> dom] @@ ns.ui, TAG_ID |-> ns.TAG_ID ]

\* Dom::into_ui_state run without interruption on a counter holding tag_id.
IntoUiState(dom, tag_id) ==
    UiStateResult(dom,
        UiStateLoop(UiStateStart(tag_id), dom.arena, LinearIter(dom.arena), 1))

\* ------------------------------------------------------------------ state

VARIABLES
    stack,      \* the Dom values alive, innermost builder expression last
    TAG_ID,     \* static TAG_ID: AtomicUsize
    ui_state,   \* the UiState returned by the last into_ui_state, if alive
    last_call,  \* the last operation called, with its arguments
    builds,     \* the into_ui_state calls in flight on other threads
    dom_hashes  \* the DomHash values computed so far, each with its node

vars == << stack, TAG_ID, ui_state, last_call, builds, dom_hashes >>

\* The number of attributes set on a node.
AttrCount(data) ==
    Len(data.ids) + Len(data.classes) + Len(data.callbacks)
    + Len(data.default_callback_ids) + Len(data.dynamic_css_overrides)
    + (IF data.draggable THEN 1 ELSE 0) + (IF IsSome(data.tab_index) THEN 1 ELSE 0)

RECURSIVE SumAttrs(_)
SumAttrs(node_data) ==
    IF node_data = << >> THEN 0
    ELSE AttrCount(Head(node_data)) + SumAttrs(Tail(node_data))

RECURSIVE TotalNodes(_)
TotalNodes(doms) ==
    IF doms = << >> THEN 0 ELSE DomLen(Head(doms)) + TotalNodes(Tail(doms))

RECURSIVE TotalAttrs(_)
TotalAttrs(doms) ==
    IF doms = << >> THEN 0
    ELSE SumAttrs(Head(doms).arena.node_data) + TotalAttrs(Tail(doms))

\* The payload items FromIterator<NodeData> is driven with.
ItemData == { NodeDataNew(t) : t \in NodeTypes }

SeqsUpTo(S, n) == UNION { [1..k -> S] : k \in 0..n }

Top == stack[Len(stack)]
Rest == SubSeq(stack, 1, Len(stack) - 1)
Call(op, self, child, items) ==
    [ op |-> op, self |-> self, child |-> child, items |-> items, fault |-> FALSE ]
\* The call panicked: the values it was handed are lost in unwinding.
Panic(op, self, child) ==
    [ op |-> op, self |-> self, child |-> child, items |-> << >>, fault |-> TRUE ]

\* Building goes on while no UiState is alive.
Building == ui_state = None
CanPush ==
    /\ Building
    /\ Len(stack) < MaxDepth
    /\ TotalNodes(stack) < MaxNodes
\* The number of items a FromIterator call may still bring.
Room == MaxNodes - TotalNodes(stack) - 1
CanMutate ==
    /\ Building
    /\ stack # << >>
    /\ TotalAttrs(stack) < MaxAttrs

Init ==
    /\ stack = << >>
    /\ TAG_ID = 1
    /\ ui_state = None
    /\ last_call = Call("init", None, None, << >>)
    /\ builds = << >>
    /\ dom_hashes = {}

\* Dom::new(node_type)
New ==
    \E t \in NewNodeTypes :
        /\ CanPush
        /\ stack' = Append(stack, DomNew(t))
        /\ last_call' = Call("new", None, None, << >>)
        /\ UNCHANGED << TAG_ID, ui_state, builds, dom_hashes >>

\* items.collect::<Dom<T>>() for NodeData items
FromIterNodeData ==
    /\ CanPush
    /\ \E items \in SeqsUpTo(ItemData, Room) :
        /\ stack' = Append(stack, DomFromIterNodeData(items))
        /\ last_call' = Call("from_iter_node_data", None, None, items)
        /\ UNCHANGED << TAG_ID, ui_state, builds, dom_hashes >>

\* types.collect::<Dom<T>>() for NodeType items
FromIterNodeType ==
    /\ CanPush
    /\ \E types \in SeqsUpTo(NodeTypes, Room) :
        /\ stack' = Append(stack, DomFromIterNodeType(types))
        /\ last_call' = Call("from_iter_node_type", None, None, types)
        /\ UNCHANGED << TAG_ID, ui_state, builds, dom_hashes >>

\* doms.collect::<Dom<T>>() for the k innermost Doms, in the order built
FromIterDom ==
    /\ Building
    /\ TotalNodes(stack) < MaxNodes
    /\ \E k \in 0..Len(stack) :
        LET doms == SubSeq(stack, Len(stack) - k + 1, Len(stack))
            kept == SubSeq(stack, 1, Len(stack) - k)
        IN  /\ Len(kept) < MaxDepth
            /\ stack' = Append(kept, DomFromIterDom(doms))
            /\ last_call' = Call("from_iter_dom", None, None, doms)
            /\ UNCHANGED << TAG_ID, ui_state, builds, dom_hashes >>

\* outer.add_child(inner) for the two innermost Doms
AddChildCall ==
    /\ Building
    /\ Len(stack) >= 2
    /\ \E self \in {stack[Len(stack) - 1]}, child \in {stack[Len(stack)]} :
           IF AddChildPanics(self, child)
           THEN /\ stack' = SubSeq(stack, 1, Len(stack) - 2)
                /\ last_call' = Panic("add_child", Some(self), Some(child))
           ELSE /\ stack' = Append(SubSeq(stack, 1, Len(stack) - 2), AddChild(self, child))
                /\ last_call' = Call("add_child", Some(self), Some(child), << >>)
    /\ UNCHANGED << TAG_ID, ui_state, builds, dom_hashes >>

\* A builder mutator called on the innermost Dom, leaving it as `dom`.
Mutate(op, dom) ==
    /\ IF HeadOutOfBounds(Top)
       THEN /\ stack' = Rest
            /\ last_call' = Panic(op, Some(Top), None)
       ELSE /\ stack' = Append(Rest, dom)
            /\ last_call' = Call(op, Some(Top), None, << >>)
    /\ UNCHANGED << TAG_ID, ui_state, builds, dom_hashes >>

AddIdCall ==
    CanMutate /\ \E id \in Strings : Mutate("add_id", AddId(Top, id))

AddClassCall ==
    CanMutate /\ \E class \in Strings : Mutate("add_class", AddClass(Top, class))

AddCallbackCall ==
    CanMutate /\ \E on \in EventFilters, cb \in Callbacks :
        Mutate("add_callback", AddCallback(Top, on, cb))

AddDefaultCallbackIdCall ==
    CanMutate /\ \E on \in EventFilters, id \in DefaultCallbackIds :
        Mutate("add_default_callback_id", AddDefaultCallbackId(Top, on, id))

AddTabIndexCall ==
    CanMutate /\ \E tab_index \in TabIndices :
        Mutate("add_tab_index", AddTabIndex(Top, tab_index))

AddCssOverrideCall ==
    CanMutate /\ \E override \in CssOverrides :
        Mutate("add_css_override", AddCssOverride(Top, override))

SetDraggableCall ==
    CanMutate /\ \E draggable \in BOOLEAN :
        Mutate("set_draggable", SetDraggable(Top, draggable))

\* `debug_assert!(arena.node_layout[NodeId::new(0)].next_sibling.is_none())`:
\* compiled in with debug_assertions only; indexing an empty arena panics
\* as well.
IntoUiStatePanics(dom, debug_assertions) ==
    /\ debug_assertions
    /\ \/ ArenaLen(dom.arena) = 0
       \/ IsSome(dom.arena.node_layout[1].next_sibling)

\* The outcome of dom.into_ui_state() in a build with or without
\* debug_assertions: a panic after TAG_ID was reset, or the UiState.
IntoUiStateOutcome(dom, debug_assertions) ==
    /\ \E r \in {IntoUiState(dom, TAG_ID)} :
           IF IntoUiStatePanics(dom, debug_assertions)
           THEN /\ ui_state' = ui_state
                /\ TAG_ID' = ResetTagId(TAG_ID)
                /\ last_call' = Panic("into_ui_state", Some(dom), None)
           ELSE /\ ui_state' = Some(r.ui_state)
                /\ TAG_ID' = r.TAG_ID
                /\ last_call' = Call("into_ui_state", Some(dom), None, << >>)
    /\ UNCHANGED << builds, dom_hashes >>

\* dom.into_ui_state() for the finished Dom
IntoUiStateCall ==
    /\ Building
    /\ Len(stack) = 1
    /\ \E debug_assertions \in BOOLEAN : IntoUiStateOutcome(Top, debug_assertions)
    /\ stack' = Rest

\* new_scroll_tag_id(), called once a UiState is built
NewScrollTagId ==
    /\ ~Building
    /\ TAG_ID < MaxTagId
    /\ TAG_ID' = TAG_ID + 1
    /\ last_call' = Call("new_scroll_tag_id", None, None, << >>)
    /\ UNCHANGED << stack, ui_state, builds, dom_hashes >>

\* ui_state.dom.clone().into_ui_state(): the same Dom is built again
RebuildCall ==
    /\ ui_state # None
    /\ \E debug_assertions \in BOOLEAN :
           IntoUiStateOutcome(Unwrap(ui_state).dom, debug_assertions)
    /\ UNCHANGED stack

Next ==
    \/ New
    \/ FromIterNodeData
    \/ FromIterNodeType
    \/ FromIterDom
    \/ AddChildCall
    \/ AddIdCall
    \/ AddClassCall
    \/ AddCallbackCall
    \/ AddDefaultCallbackIdCall
    \/ AddTabIndexCall
    \/ AddCssOverrideCall
    \/ SetDraggableCall
    \/ IntoUiStateCall

Spec == Init /\ [][Next]_vars

\* ------------------------------------------------------------------ claims

\* The Doms alive: those being built and the one a UiState owns.
LiveDoms ==
    { stack[i] : i \in 1..Len(stack) }
        \cup (IF ui_state = None THEN {} ELSE { Unwrap(ui_state).dom })

NodeIds(dom) == 0..(DomLen(dom) - 1)
NodeAt(dom, node_id) == dom.arena.node_layout[node_id + 1]
DataAt(dom, node_id) == dom.arena.node_data[node_id + 1]
PointerFields == {"parent", "previous_sibling", "next_sibling", "first_child", "last_child"}

\* A Dom holding no node, as add_child's first two branches expect it.
EmptyDom == [ arena |-> ArenaEmpty, root |-> 0, head |-> 0 ]

\* The last call was self.add_child(child) and returned.
AddChildReturned == last_call.op = "add_child" /\ ~last_call.fault
CallSelf == Unwrap(last_call.self)
CallChild == Unwrap(last_call.child)

\* The siblings reached from `first` through next_sibling, in order.
RECURSIVE SiblingsFrom(_, _, _)
SiblingsFrom(dom, first, fuel) ==
    IF IsNone(first) \/ fuel = 0 \/ Unwrap(first) \notin NodeIds(dom)
    THEN << >>
    ELSE <<Unwrap(first)>>
            \o SiblingsFrom(dom, NodeAt(dom, Unwrap(first)).next_sibling, fuel - 1)

Children(dom, parent) ==
    SiblingsFrom(dom, NodeAt(dom, parent).first_child, DomLen(dom))

\* C1: after A.add_child(B) the node count of A is len(A) + len(B) when A was
\* not empty, and len(B) when A was empty (so it is unchanged when B is
\* empty).  Checked on every add_child call made, and on add_child applied to
\* every live Dom with an empty receiver and with an empty donor.
C1_AddChildLen ==
    /\ AddChildReturned =>
          DomLen(Top) = IF DomLen(CallSelf) # 0
                        THEN DomLen(CallSelf) + DomLen(CallChild)
                        ELSE DomLen(CallChild)
    /\ \A dom \in LiveDoms :
          /\ DomLen(AddChild(EmptyDom, dom)) = DomLen(dom)
          /\ DomLen(AddChild(dom, EmptyDom)) = DomLen(dom) + DomLen(EmptyDom)

\* An add_child of a donor with children into a receiver with children.
C1_Witness ==
    /\ AddChildReturned
    /\ DomLen(CallSelf) >= 2
    /\ DomLen(CallChild) >= 2
    /\ DomLen(Top) = 4

\* C2: root is node 0, has no parent and no siblings, and is the only node
\* without a parent.
RootIsSoleParentless(dom) ==
    /\ dom.root = 0
    /\ dom.root \in NodeIds(dom)
    /\ NodeAt(dom, dom.root).parent = None
    /\ NodeAt(dom, dom.root).previous_sibling = None
    /\ NodeAt(dom, dom.root).next_sibling = None
    /\ \A n \in NodeIds(dom) : NodeAt(dom, n).parent = None => n = dom.root

C2_RootInvariant == \A dom \in LiveDoms : RootIsSoleParentless(dom)

\* A Dom that went through from-iterator construction, a mutator and
\* add_child.
C2_Witness ==
    /\ AddChildReturned
    /\ DomLen(CallChild) >= 2
    /\ SumAttrs(CallChild.arena.node_data) >= 1
    /\ DomLen(Top) >= 4

\* C3: the topology is a well-formed doubly-linked sibling list per parent.
PointersValid(dom) ==
    \A n \in NodeIds(dom), f \in PointerFields :
        IsSome(NodeAt(dom, n)[f]) => Unwrap(NodeAt(dom, n)[f]) \in NodeIds(dom)

NodeWellLinked(dom, n) ==
    /\ IsSome(NodeAt(dom, n).next_sibling) =>
          /\ NodeAt(dom, Unwrap(NodeAt(dom, n).next_sibling)).previous_sibling = Some(n)
          /\ NodeAt(dom, Unwrap(NodeAt(dom, n).next_sibling)).parent = NodeAt(dom, n).parent
    /\ IsSome(NodeAt(dom, n).first_child) =>
          /\ NodeAt(dom, Unwrap(NodeAt(dom, n).first_child)).parent = Some(n)
          /\ NodeAt(dom, Unwrap(NodeAt(dom, n).first_child)).previous_sibling = None
    /\ IsSome(NodeAt(dom, n).last_child) =>
          /\ NodeAt(dom, Unwrap(NodeAt(dom, n).last_child)).parent = Some(n)
          /\ NodeAt(dom, Unwrap(NodeAt(dom, n).last_child)).next_sibling = None
    /\ IsNone(NodeAt(dom, n).first_child) <=> IsNone(NodeAt(dom, n).last_child)

WellFormed(dom) ==
    /\ PointersValid(dom)
    /\ \A n \in NodeIds(dom) : NodeWellLinked(dom, n)

C3_WellFormedTopology == \A dom \in LiveDoms : WellFormed(dom)

\* A Dom whose root got a second child with children of its own.
C3_Witness ==
    /\ AddChildReturned
    /\ Len(Children(Top, Top.head)) >= 2
    /\ IsSome(NodeAt(Top, DomLen(CallSelf)).first_child)
    /\ IsNone(NodeAt(Top, Top.root).next_sibling)

\* C4: add_child on a receiver of length L > 0 puts donor node i at i + L
\* with its payload, and every donor pointer j becomes j + L, except the
\* donor root's parent (the receiver's head) and previous_sibling (head's
\* former last child, if any).
RebasedPointer(self, child, i, f) ==
    IF i = child.root /\ f = "parent" THEN Some(self.head)
    ELSE IF i = child.root /\ f = "previous_sibling"
         THEN NodeAt(self, self.head).last_child
    ELSE OffsetSome(NodeAt(child, i)[f], DomLen(self))

DonorRebased(self, child, merged) ==
    \A i \in NodeIds(child) :
        /\ i + DomLen(self) \in NodeIds(merged)
        /\ DataAt(merged, i + DomLen(self)) = DataAt(child, i)
        /\ \A f \in PointerFields :
              NodeAt(merged, i + DomLen(self))[f] = RebasedPointer(self, child, i, f)

C4_AddChildRebasesDonor ==
    (AddChildReturned /\ DomLen(CallSelf) > 0)
        => DonorRebased(CallSelf, CallChild, Top)

\* The donor has children and a payload of its own, the receiver has a child.
C4_Witness ==
    /\ AddChildReturned
    /\ DomLen(CallSelf) >= 2
    /\ IsSome(NodeAt(CallChild, CallChild.root).first_child)
    /\ \E i \in NodeIds(CallChild) : DataAt(CallChild, i) # NodeDataDefault

\* C5: after A.add_child(B) on a non-empty A the child list of A.head is its
\* former child list followed by B's root; head's last_child is B's rebased
\* root, head's first_child is set to it only if head had no children, and
\* otherwise the former last child and B's root are linked to each other.
\* So the Doms collected by FromIterator<Dom> are the root's children in
\* call order, each keeping its own subtree.
HeadExtended(self, child, merged) ==
    /\ Children(merged, self.head)
          = Append(Children(self, self.head), child.root + DomLen(self))
    /\ NodeAt(merged, self.head).last_child = Some(child.root + DomLen(self))
    /\ IF IsNone(NodeAt(self, self.head).first_child)
       THEN NodeAt(merged, self.head).first_child = Some(child.root + DomLen(self))
       ELSE /\ NodeAt(merged, self.head).first_child = NodeAt(self, self.head).first_child
            /\ NodeAt(merged, Unwrap(NodeAt(self, self.head).last_child)).next_sibling
                  = Some(child.root + DomLen(self))
            /\ NodeAt(merged, child.root + DomLen(self)).previous_sibling
                  = NodeAt(self, self.head).last_child

\* The index the k-th collected Dom lands at: 1 + the lengths before it.
RECURSIVE CollectedOffset(_, _)
CollectedOffset(doms, k) ==
    IF k = 1 THEN 1 ELSE CollectedOffset(doms, k - 1) + DomLen(doms[k - 1])

\* The donor's subtree is found unchanged at `offset`.
KeepsSubtree(merged, child, offset) ==
    \A i \in NodeIds(child) :
        /\ i + offset \in NodeIds(merged)
        /\ DataAt(merged, i + offset) = DataAt(child, i)
        /\ \A f \in (IF i = child.root THEN {"first_child", "last_child"} ELSE PointerFields) :
              NodeAt(merged, i + offset)[f] = OffsetSome(NodeAt(child, i)[f], offset)

C5_AddChildExtendsHead ==
    /\ (AddChildReturned /\ DomLen(CallSelf) > 0) =>
          /\ HeadExtended(CallSelf, CallChild, Top)
          /\ KeepsSubtree(Top, CallChild, DomLen(CallSelf))
    /\ last_call.op = "from_iter_dom" =>
          /\ Children(Top, Top.root)
                = [k \in 1..Len(last_call.items) |-> CollectedOffset(last_call.items, k)]
          /\ \A k \in 1..Len(last_call.items) :
                KeepsSubtree(Top, last_call.items[k], CollectedOffset(last_call.items, k))

\* A second child with children is added to a head that has a child.
C5_Witness ==
    /\ AddChildReturned
    /\ IsSome(NodeAt(CallSelf, CallSelf.head).first_child)
    /\ IsSome(NodeAt(CallChild, CallChild.root).first_child)
    /\ Len(Children(Top, Top.head)) = 2

\* C6: N >= 1 payload items collect into N + 1 nodes: a Div root at index 0
\* with first_child 1 and last_child N, and item k at index k with parent 0,
\* no children, previous_sibling k - 1 (None for k = 1), next_sibling k + 1
\* (None for k = N) and the k-th payload.
CollectedItems(dom, items) ==
    /\ DomLen(dom) = Len(items) + 1
    /\ Len(dom.arena.node_data) = Len(items) + 1
    /\ DataAt(dom, 0) = NodeDataNew("Div")
    /\ NodeAt(dom, 0) = [EmptyNode EXCEPT !.first_child = Some(1),
                                          !.last_child = Some(Len(items))]
    /\ \A k \in 1..Len(items) :
          /\ DataAt(dom, k) = items[k]
          /\ NodeAt(dom, k) =
                [ parent |-> Some(0),
                  previous_sibling |-> IF k = 1 THEN None ELSE Some(k - 1),
                  next_sibling |-> IF k = Len(items) THEN None ELSE Some(k + 1),
                  first_child |-> None,
                  last_child |-> None ]

C6_FromIterItems ==
    /\ (last_call.op = "from_iter_node_data" /\ Len(last_call.items) >= 1)
          => CollectedItems(Top, last_call.items)
    /\ (last_call.op = "from_iter_node_type" /\ Len(last_call.items) >= 1)
          => CollectedItems(Top, [k \in 1..Len(last_call.items) |->
                                    NodeDataNew(last_call.items[k])])

\* Three items of two different payloads were collected.
C6_Witness ==
    /\ last_call.op = "from_iter_node_data"
    /\ Len(last_call.items) = 3
    /\ last_call.items[1] # last_call.items[2]

\* C7: an empty sequence of payload items collects into exactly one node, a
\* Div root without children, with root = head = 0, and add_class and add_id
\* on it return without a fault.
BareRoot(dom) ==
    /\ DomLen(dom) = 1
    /\ Len(dom.arena.node_data) = 1
    /\ dom.root = 0
    /\ dom.head = 0
    /\ DataAt(dom, 0).node_type = "Div"
    /\ NodeAt(dom, 0).first_child = None
    /\ NodeAt(dom, 0).last_child = None

C7_FromIterEmpty ==
    /\ (last_call.op \in {"from_iter_node_data", "from_iter_node_type"}
            /\ last_call.items = << >>)
          => /\ BareRoot(Top)
             /\ DataAt(Top, 0) = NodeDataNew("Div")
             /\ ~HeadOutOfBounds(Top)
    /\ (last_call.op \in {"add_class", "add_id"} /\ IsSome(last_call.self)
            /\ CallSelf \in {DomFromIterNodeData(<< >>), DomFromIterNodeType(<< >>)})
          => /\ ~last_call.fault
             /\ BareRoot(Top)
             /\ Len(DataAt(Top, 0).ids) + Len(DataAt(Top, 0).classes) = 1

\* add_class was called on the Dom collected from no item.
C7_Witness ==
    /\ last_call.op = "add_class"
    /\ CallSelf = DomFromIterNodeData(<< >>)
    /\ stack # << >>
    /\ DataAt(Top, 0).classes = <<"a">>

\* C8: no Dom has 0 nodes, so add_child never takes its empty-donor or
\* empty-receiver branch.
C8_NeverEmpty ==
    /\ \A dom \in LiveDoms : DomLen(dom) >= 1
    /\ last_call.op = "add_child" =>
          /\ DomLen(CallSelf) >= 1
          /\ DomLen(CallChild) >= 1

\* add_child was called with a donor collected from no item.
C8_Witness ==
    /\ AddChildReturned
    /\ CallChild = DomFromIterNodeData(<< >>)
    /\ DomLen(Top) >= 2

\* C25: add_child on a non-empty receiver keeps every receiver node at its
\* index with its payload, keeps root and head, and changes no receiver
\* pointer other than head's last_child, head's first_child when it was None,
\* and the next_sibling of head's former last child.
ReceiverPointerMayChange(self, n, f) ==
    \/ n = self.head /\ f = "last_child"
    \/ n = self.head /\ f = "first_child" /\ IsNone(NodeAt(self, self.head).first_child)
    \/ f = "next_sibling" /\ NodeAt(self, self.head).last_child = Some(n)

ReceiverKept(self, merged) ==
    /\ merged.root = self.root
    /\ merged.head = self.head
    /\ \A n \in NodeIds(self) :
          /\ n \in NodeIds(merged)
          /\ DataAt(merged, n) = DataAt(self, n)
          /\ \A f \in PointerFields :
                NodeAt(merged, n)[f] # NodeAt(self, n)[f]
                    => ReceiverPointerMayChange(self, n, f)

C25_AddChildKeepsReceiver ==
    (AddChildReturned /\ DomLen(CallSelf) > 0) => ReceiverKept(CallSelf, Top)

\* A donor is added to a receiver whose head has two children, one of them
\* with an attribute set.
C25_Witness ==
    /\ AddChildReturned
    /\ Len(Children(CallSelf, CallSelf.head)) >= 2
    /\ SumAttrs(CallSelf.arena.node_data) >= 1
    /\ DomLen(Top) > DomLen(CallSelf)
    /\ NodeAt(Top, Unwrap(NodeAt(CallSelf, CallSelf.head).last_child)).next_sibling
          = Some(DomLen(CallSelf))

\* C26: in every Dom head = root = 0 and index order is pre-order: a
\* non-root node's parent has a smaller index, the subtree of a node is the
\* contiguous index range starting at it, and a next_sibling is the index
\* right after the node's subtree.
RECURSIVE PreOrder(_, _, _)
RECURSIVE PreOrderEach(_, _, _)
\* The walk from `n`: n, then the walk from each of its children in link order.
PreOrder(dom, n, fuel) ==
    IF fuel = 0 THEN << >>
    ELSE <<n>> \o PreOrderEach(dom, Children(dom, n), fuel - 1)

PreOrderEach(dom, nodes, fuel) ==
    IF nodes = << >> THEN << >>
    ELSE PreOrder(dom, Head(nodes), fuel) \o PreOrderEach(dom, Tail(nodes), fuel)

Subtree(dom, n) == PreOrder(dom, n, DomLen(dom))

IndexOrderIsPreOrder(dom) ==
    /\ dom.head = dom.root
    /\ dom.root = 0
    /\ Subtree(dom, dom.root) = LinearIter(dom.arena)
    /\ \A n \in NodeIds(dom) :
          /\ n # dom.root =>
                /\ IsSome(NodeAt(dom, n).parent)
                /\ Unwrap(NodeAt(dom, n).parent) < n
          /\ Subtree(dom, n) = [k \in 1..Len(Subtree(dom, n)) |-> n + k - 1]
          /\ IsSome(NodeAt(dom, n).next_sibling) =>
                Unwrap(NodeAt(dom, n).next_sibling) = n + Len(Subtree(dom, n))

C26_IndexOrderIsPreOrder == \A dom \in LiveDoms : IndexOrderIsPreOrder(dom)

\* A Dom built by add_child with a non-root node that has a child and a
\* next sibling, and an attribute set by a mutator.
C26_Witness ==
    /\ AddChildReturned
    /\ SumAttrs(Top.arena.node_data) >= 1
    /\ \E n \in NodeIds(Top) \ {Top.root} :
          /\ IsSome(NodeAt(Top, n).first_child)
          /\ IsSome(NodeAt(Top, n).next_sibling)


\* ------------------------------------------------------------------ UiSpec
\* The classification pass on its own: a finished Dom with hit-testable and
\* other payloads is handed to into_ui_state, whatever value earlier
\* new_tag_id calls left in TAG_ID.

\* Largest number of items of the Doms handed to into_ui_state.
MaxUiItems == 2

\* Payloads: plain, a Hover callback, a Window callback, a Hover default
\* callback, draggable, a tab index, and all of them at once.
UiPayloads ==
    { NodeDataNew("Div"),
      [NodeDataNew("Label") EXCEPT !.callbacks = <<<<HoverFilter("MouseOver"), "cb1">>>>],
      [NodeDataNew("Div") EXCEPT !.callbacks = <<<<WindowFilter("MouseEnter"), "cb1">>>>],
      [NodeDataNew("Div") EXCEPT !.default_callback_ids = <<<<HoverFilter("MouseOver"), "dcb1">>>>],
      [NodeDataNew("Div") EXCEPT !.draggable = TRUE],
      [NodeDataNew("Div") EXCEPT !.tab_index = Some(<<"Auto">>)],
      [NodeDataNew("Div") EXCEPT
          !.callbacks = <<<<HoverFilter("MouseOver"), "cb1">>, <<WindowFilter("MouseEnter"), "cb1">>>>,
          !.draggable = TRUE, !.tab_index = Some(<<"Auto">>)] }

\* The Doms handed over: items.collect(), the same with a collected
\* one-item Dom added as the last child, and either with a draggable root.
UiFlatDoms == { DomFromIterNodeData(items) : items \in SeqsUpTo(UiPayloads, MaxUiItems) }
UiNestedDoms ==
    { AddChild(d, DomFromIterNodeData(<<p>>)) : d \in UiFlatDoms, p \in UiPayloads }
UiDoms ==
    LET doms == UiFlatDoms \cup UiNestedDoms
    IN  doms \cup { SetDraggable(d, TRUE) : d \in doms }

UiInit ==
    /\ stack \in { <<d>> : d \in UiDoms }
    /\ TAG_ID \in 1..MaxTagId
    /\ ui_state = None
    /\ last_call = Call("init", None, None, << >>)
    /\ builds = << >>
    /\ dom_hashes = {}

UiNext ==
    \/ IntoUiStateCall
    \/ NewScrollTagId
    \/ RebuildCall

UiSpec == UiInit /\ [][UiNext]_vars

\* ------------------------------------------------------------ UiState claims

\* The last call was into_ui_state and its UiState is alive.
UiStateBuilt == last_call.op = "into_ui_state" /\ ui_state # None
BuiltUi == Unwrap(ui_state)
TaggedNodes == DOMAIN BuiltUi.node_ids_to_tag_ids
TagOf(node_id) == BuiltUi.node_ids_to_tag_ids[node_id]

\* C9: one build on its own assigns exactly the tags 1 .. k, k the number of
\* tagged nodes: the first tagged node visited gets 1, a tagged node visited
\* later gets a strictly larger tag, and no tag is given to two nodes.
C9_TagsSequential ==
    UiStateBuilt =>
        /\ { TagOf(n) : n \in TaggedNodes } = 1..Cardinality(TaggedNodes)
        /\ DOMAIN BuiltUi.tag_ids_to_node_ids = 1..Cardinality(TaggedNodes)
        /\ \A n \in TaggedNodes :
              (\A m \in TaggedNodes : n <= m) => TagOf(n) = 1
        /\ \A n, m \in TaggedNodes : n < m => TagOf(n) < TagOf(m)
        /\ \A n, m \in TaggedNodes : TagOf(n) = TagOf(m) => n = m
        /\ TAG_ID = Cardinality(TaggedNodes) + 1

\* A build that tags two nodes and leaves one visited between them
\* untagged.
C9_Witness ==
    /\ UiStateBuilt
    /\ Cardinality(TaggedNodes) >= 2
    /\ \E n \in NodeIds(BuiltUi.dom) \ TaggedNodes :
          \E a, b \in TaggedNodes : a < n /\ n < b

\* C10: tag_ids_to_node_ids and node_ids_to_tag_ids are mutually inverse and
\* have the same number of entries.
C10_TagMapsInverse ==
    UiStateBuilt =>
        /\ \A t \in DOMAIN BuiltUi.tag_ids_to_node_ids :
              /\ BuiltUi.tag_ids_to_node_ids[t] \in DOMAIN BuiltUi.node_ids_to_tag_ids
              /\ BuiltUi.node_ids_to_tag_ids[BuiltUi.tag_ids_to_node_ids[t]] = t
        /\ \A n \in DOMAIN BuiltUi.node_ids_to_tag_ids :
              /\ BuiltUi.node_ids_to_tag_ids[n] \in DOMAIN BuiltUi.tag_ids_to_node_ids
              /\ BuiltUi.tag_ids_to_node_ids[BuiltUi.node_ids_to_tag_ids[n]] = n
        /\ Cardinality(DOMAIN BuiltUi.tag_ids_to_node_ids)
              = Cardinality(DOMAIN BuiltUi.node_ids_to_tag_ids)

\* A UiState with more than one entry, where tag and node index differ.
C10_Witness ==
    /\ UiStateBuilt
    /\ Cardinality(DOMAIN BuiltUi.tag_ids_to_node_ids) >= 2
    /\ \E t \in DOMAIN BuiltUi.tag_ids_to_node_ids :
          BuiltUi.tag_ids_to_node_ids[t] # t

\* C23: a build visits every node once and in pre-order (a parent before its
\* children, siblings in link order, a subtree before the next sibling): the
\* NodeIds of linear_iter are the pre-order walk from the root, the UiState
\* is the one the loop yields when driven by that walk, and of two tagged
\* nodes the one earlier in the walk has the smaller tag.
PositionIn(order, node_id) == CHOOSE k \in 1..Len(order) : order[k] = node_id

VisitedOnce(dom, order) ==
    /\ Len(order) = DomLen(dom)
    /\ \A n \in NodeIds(dom) :
          Cardinality({ k \in 1..Len(order) : order[k] = n }) = 1

MaxRouteItems == 2

RouteCallbackLists ==
    { << >>,
      <<<<HoverFilter("MouseOver"), "cb1">>>>,
      <<<<FocusFilter("TextInput"), "cb1">>>>,
      <<<<NotFilter(HoverFilter("MouseDown")), "cb1">>>>,
      <<<<WindowFilter("MouseEnter"), "cb1">>>>,
      <<<<DesktopFilter("DeviceAdded"), "cb1">>>>,
      <<<<HoverFilter("MouseOver"), "cb1">>, <<WindowFilter("MouseOver"), "cb2">>>>,
      <<<<WindowFilter("MouseEnter"), "cb1">>, <<DesktopFilter("DeviceAdded"), "cb2">>>>,
      <<<<HoverFilter("MouseOver"), "cb1">>, <<HoverFilter("MouseOver"), "cb2">>>>,
      << <<HoverFilter("MouseOver"), "cb1">>, <<HoverFilter("MouseDown"), "cb1">>,
         <<HoverFilter("MouseOver"), "cb2">> >> }

RouteDefaultLists ==
    { <<<<HoverFilter("MouseOver"), "dcb1">>>>,
      <<<<FocusFilter("TextInput"), "dcb1">>>>,
      <<<<NotFilter(FocusFilter("FocusLost")), "dcb1">>>>,
      <<<<WindowFilter("MouseEnter"), "dcb1">>>>,
      <<<<DesktopFilter("DeviceAdded"), "dcb1">>>>,
      <<<<WindowFilter("MouseEnter"), "dcb1">>, <<FocusFilter("TextInput"), "dcb2">>>> }

\* Payloads: one list of callbacks, or one list of default callbacks, or a
\* flag, and some combinations of them.
RoutePayloads ==
    { [NodeDataNew("Div") EXCEPT !.callbacks = cbs] : cbs \in RouteCallbackLists }
    \cup { [NodeDataNew("Div") EXCEPT !.default_callback_ids = ids] : ids \in RouteDefaultLists }
    \cup { [NodeDataNew("Div") EXCEPT !.draggable = TRUE],
           [NodeDataNew("Div") EXCEPT !.tab_index = Some(<<"Auto">>)],
           [NodeDataNew("Div") EXCEPT
               !.callbacks = <<<<WindowFilter("MouseEnter"), "cb1">>>>,
               !.default_callback_ids = <<<<DesktopFilter("DeviceAdded"), "dcb1">>>>],
           [NodeDataNew("Div") EXCEPT
               !.callbacks = <<<<WindowFilter("MouseEnter"), "cb1">>>>,
               !.tab_index = Some(<<"Auto">>)],
           [NodeDataNew("Div") EXCEPT
               !.callbacks = <<<<NotFilter(HoverFilter("MouseDown")), "cb1">>>>,
               !.default_callback_ids = <<<<HoverFilter("MouseOver"), "dcb1">>>>,
               !.draggable = TRUE, !.tab_index = Some(<<"Auto">>)],
           [NodeDataNew("Div") EXCEPT
               !.callbacks = << <<HoverFilter("MouseOver"), "cb1">>,
                                <<FocusFilter("TextInput"), "cb1">>,
                                <<NotFilter(HoverFilter("MouseDown")), "cb1">> >>,
               !.default_callback_ids = << <<HoverFilter("MouseOver"), "dcb1">>,
                                           <<FocusFilter("TextInput"), "dcb1">>,
                                           <<NotFilter(FocusFilter("FocusLost")), "dcb1">> >>,
               !.draggable = TRUE, !.tab_index = Some(<<"Auto">>)] }

RouteDoms ==
    { DomFromIterNodeData(items) : items \in SeqsUpTo(RoutePayloads, MaxRouteItems) }

RouteInit ==
    /\ stack \in { <<d>> : d \in RouteDoms }
    /\ TAG_ID \in 1..MaxTagId
    /\ ui_state = None
    /\ last_call = Call("init", None, None, << >>)
    /\ builds = << >>
    /\ dom_hashes = {}

RouteSpec == RouteInit /\ [][UiNext]_vars

\* The category and the inner kind of an EventFilter.
FilterCategory(f) == f[1]
FilterKind(f) == IF f[1] = "Not" THEN <<f[2], f[3]>> ELSE f[2]

\* The list a table is filled from and the category it holds.
CallbackTables ==
    { "hover_callbacks", "focus_callbacks", "not_callbacks",
      "window_callbacks", "desktop_callbacks" }
DefaultCallbackTables ==
    { "hover_default_callbacks", "focus_default_callbacks", "not_default_callbacks",
      "window_default_callbacks", "desktop_default_callbacks" }
TableSource(table, data) ==
    IF table \in CallbackTables THEN data.callbacks ELSE data.default_callback_ids
TableCategory(table) ==
    CASE table \in {"hover_callbacks", "hover_default_callbacks"} -> "Hover"
      [] table \in {"focus_callbacks", "focus_default_callbacks"} -> "Focus"
      [] table \in {"not_callbacks", "not_default_callbacks"} -> "Not"
      [] table \in {"window_callbacks", "window_default_callbacks"} -> "Window"
      [] table \in {"desktop_callbacks", "desktop_default_callbacks"} -> "Desktop"

\* Some entry of the list has a Hover, Focus or Not filter.
HitTestable(source) ==
    \E i \in 1..Len(source) : FilterCategory(source[i][1]) \in {"Hover", "Focus", "Not"}

NeedsTag(data) ==
    \/ HitTestable(data.callbacks)
    \/ HitTestable(data.default_callback_ids)
    \/ data.draggable
    \/ IsSome(data.tab_index)

BuiltNodes == NodeIds(BuiltUi.dom)
BuiltData(node_id) == DataAt(BuiltUi.dom, node_id)

\* C11: a node has an entry in the tag maps if and only if it has a Hover,
\* Focus or Not callback (regular or default), is draggable or has a tab
\* index; a node with Window or Desktop callbacks only gets no tag and does
\* not advance the allocator.
C11_TagIffHitTestable ==
    UiStateBuilt =>
        /\ \A n \in BuiltNodes :
              /\ n \in DOMAIN BuiltUi.node_ids_to_tag_ids <=> NeedsTag(BuiltData(n))
              /\ (\E t \in DOMAIN BuiltUi.tag_ids_to_node_ids :
                      BuiltUi.tag_ids_to_node_ids[t] = n) <=> NeedsTag(BuiltData(n))
        /\ TAG_ID = 1 + Cardinality({ n \in BuiltNodes : NeedsTag(BuiltData(n)) })

\* A node with Window and Desktop callbacks only is visited before a node
\* that qualifies.
C11_Witness ==
    /\ UiStateBuilt
    /\ \E n, m \in BuiltNodes :
          /\ n < m
          /\ BuiltData(n).callbacks # << >>
          /\ BuiltData(n).default_callback_ids # << >>
          /\ ~NeedsTag(BuiltData(n))
          /\ m \in DOMAIN BuiltUi.node_ids_to_tag_ids
          /\ BuiltUi.node_ids_to_tag_ids[m] = 1

\* The kinds of the entries of `source` with a filter of category `cat`, and
\* the callback of the last entry of `source` with the filter `cat`, `kind`.
KindsOf(source, cat) ==
    { FilterKind(source[i][1]) : i \in { j \in 1..Len(source) : FilterCategory(source[j][1]) = cat } }
LastWith(source, cat, kind) ==
    source[CHOOSE i \in 1..Len(source) :
              /\ FilterCategory(source[i][1]) = cat
              /\ FilterKind(source[i][1]) = kind
              /\ \A j \in (i + 1)..Len(source) :
                    ~(FilterCategory(source[j][1]) = cat /\ FilterKind(source[j][1]) = kind)][2]

\* The table holds for node n exactly the entries of its category.
TableRouted(table, n) ==
    IF KindsOf(TableSource(table, BuiltData(n)), TableCategory(table)) = {}
    THEN n \notin DOMAIN BuiltUi[table]
    ELSE /\ n \in DOMAIN BuiltUi[table]
         /\ DOMAIN BuiltUi[table][n]
               = KindsOf(TableSource(table, BuiltData(n)), TableCategory(table))
         /\ \A kind \in DOMAIN BuiltUi[table][n] :
               BuiltUi[table][n][kind]
                  = LastWith(TableSource(table, BuiltData(n)), TableCategory(table), kind)

\* C12: each (filter, callback) pair of a node is recorded in the table of
\* the filter's category and of no other, keyed by node index and inner
\* kind (a later pair with the same filter replacing an earlier one), and a
\* node has an entry in a table only if it has a callback of its category.
\* A node with only Window callbacks has a window_callbacks entry and no
\* entry in either tag map.
C12_CallbacksRouted ==
    UiStateBuilt =>
        /\ \A n \in BuiltNodes, table \in CallbackTables \cup DefaultCallbackTables :
              TableRouted(table, n)
        /\ \A table \in CallbackTables \cup DefaultCallbackTables :
              DOMAIN BuiltUi[table] \subseteq BuiltNodes
        /\ \A n \in BuiltNodes :
              (/\ BuiltData(n).callbacks # << >>
               /\ \A i \in 1..Len(BuiltData(n).callbacks) :
                     FilterCategory(BuiltData(n).callbacks[i][1]) = "Window"
               /\ BuiltData(n).default_callback_ids = << >>
               /\ ~BuiltData(n).draggable
               /\ IsNone(BuiltData(n).tab_index))
              => /\ n \in DOMAIN BuiltUi.window_callbacks
                 /\ n \notin DOMAIN BuiltUi.node_ids_to_tag_ids
                 /\ \A t \in DOMAIN BuiltUi.tag_ids_to_node_ids :
                       BuiltUi.tag_ids_to_node_ids[t] # n

\* One node has a Hover and a Window callback, another a Window callback
\* only.
C12_Witness ==
    /\ UiStateBuilt
    /\ \E n, m \in BuiltNodes :
          /\ n \in DOMAIN BuiltUi.hover_callbacks
          /\ n \in DOMAIN BuiltUi.window_callbacks
          /\ m \in DOMAIN BuiltUi.window_callbacks
          /\ m \notin DOMAIN BuiltUi.node_ids_to_tag_ids
          /\ BuiltUi.window_callbacks[m] = ("MouseEnter" :> "cb1")

\* A node with a tab index, not draggable and without callbacks.
TabIndexOnly(data) ==
    /\ IsSome(data.tab_index)
    /\ ~data.draggable
    /\ data.callbacks = << >>
    /\ data.default_callback_ids = << >>

\* C13: a node with a tab index, draggable = false and no callbacks has no
\* entry in any of the ten callback tables, none in the draggable table, and
\* exactly one in the tab-index table, keyed by its tag and holding
\* (node index, tab index).
C13_TabIndexOnlyNode ==
    UiStateBuilt =>
        \A n \in BuiltNodes :
            TabIndexOnly(BuiltData(n)) =>
                /\ \A table \in CallbackTables \cup DefaultCallbackTables :
                      n \notin DOMAIN BuiltUi[table]
                /\ \A t \in DOMAIN BuiltUi.draggable_tags : BuiltUi.draggable_tags[t] # n
                /\ n \in DOMAIN BuiltUi.node_ids_to_tag_ids
                /\ BuiltUi.node_ids_to_tag_ids[n] \in DOMAIN BuiltUi.tab_index_tags
                /\ { t \in DOMAIN BuiltUi.tab_index_tags : BuiltUi.tab_index_tags[t][1] = n }
                      = { BuiltUi.node_ids_to_tag_ids[n] }
                /\ BuiltUi.tab_index_tags[BuiltUi.node_ids_to_tag_ids[n]]
                      = <<n, Unwrap(BuiltData(n).tab_index)>>

\* The tab-index-only node is the second item and gets tag 1.
C13_Witness ==
    /\ UiStateBuilt
    /\ 2 \in BuiltNodes
    /\ TabIndexOnly(BuiltData(2))
    /\ BuiltUi.tab_index_tags = (1 :> <<2, <<"Auto">>>>)

\* The tag of a node is 1 + the number of qualifying nodes visited before it.
TagsByOrder(ui) ==
    \A n \in DOMAIN ui.node_ids_to_tag_ids :
        ui.node_ids_to_tag_ids[n]
            = 1 + Cardinality({ m \in NodeIds(ui.dom) : m < n /\ NeedsTag(DataAt(ui.dom, m)) })

\* C16: building is deterministic and history-independent: into_ui_state on
\* the Dom of the UiState alive, run now or on any other counter value,
\* returns that same UiState, whatever builds and (scroll) tag allocations
\* came before; and a tag depends only on which nodes qualify and on the
\* traversal order, not on the condition that triggered the allocation.
C16_BuildDeterministic ==
    ui_state # None =>
        /\ \A t \in (1..MaxTagId) \cup {TAG_ID} :
              \E r \in {IntoUiState(BuiltUi.dom, t)} :
                  /\ r.ui_state = BuiltUi
                  /\ r.TAG_ID = 1 + Cardinality(DOMAIN BuiltUi.node_ids_to_tag_ids)
        /\ TagsByOrder(BuiltUi)

\* Scroll tags were allocated after a build that tagged one node for its tab
\* index and a later one for its callbacks: the state a second build of the
\* same Dom starts from.
C16_Witness ==
    /\ ui_state # None
    /\ last_call.op = "new_scroll_tag_id"
    /\ TAG_ID > 1 + Cardinality(DOMAIN BuiltUi.node_ids_to_tag_ids)
    /\ \E n, m \in DOMAIN BuiltUi.node_ids_to_tag_ids :
          /\ n < m
          /\ TabIndexOnly(BuiltData(n))
          /\ HitTestable(BuiltData(m).callbacks)
          /\ ~BuiltData(m).draggable
          /\ IsNone(BuiltData(m).tab_index)

\* The node meets every hit-testable condition there is.
MeetsEveryCondition(data) ==
    /\ \A cat \in {"Hover", "Focus", "Not"} :
          /\ \E i \in 1..Len(data.callbacks) :
                FilterCategory(data.callbacks[i][1]) = cat
          /\ \E i \in 1..Len(data.default_callback_ids) :
                FilterCategory(data.default_callback_ids[i][1]) = cat
    /\ data.draggable
    /\ IsSome(data.tab_index)

\* The tags a node is known by in the draggable table, the tab-index table
\* and the two tag maps.
TagsOfNode(ui, n) ==
    { t \in DOMAIN ui.draggable_tags : ui.draggable_tags[t] = n }
        \cup { t \in DOMAIN ui.tab_index_tags : ui.tab_index_tags[t][1] = n }
        \cup { t \in DOMAIN ui.tag_ids_to_node_ids : ui.tag_ids_to_node_ids[t] = n }
        \cup (IF n \in DOMAIN ui.node_ids_to_tag_ids
              THEN {ui.node_ids_to_tag_ids[n]} ELSE {})

\* C22: within one build a node takes at most one value of the allocator
\* however many hit-testable conditions it meets: the allocator advances by
\* one for each tagged node, the keys of a node's draggable and tab-index
\* entries and its node_ids_to_tag_ids value are one tag, and every key of
\* the draggable and tab-index tables is a key of tag_ids_to_node_ids for
\* the same node.
C22_OneTagPerNode ==
    UiStateBuilt =>
        /\ TAG_ID = 1 + Cardinality(TaggedNodes)
        /\ \A n \in BuiltNodes :
              /\ Cardinality(TagsOfNode(BuiltUi, n)) <= 1
              /\ BuiltData(n).draggable =>
                    \E t \in DOMAIN BuiltUi.draggable_tags :
                        BuiltUi.draggable_tags[t] = n
              /\ IsSome(BuiltData(n).tab_index) =>
                    \E t \in DOMAIN BuiltUi.tab_index_tags :
                        BuiltUi.tab_index_tags[t][1] = n
        /\ \A t \in DOMAIN BuiltUi.draggable_tags :
              /\ t \in DOMAIN BuiltUi.tag_ids_to_node_ids
              /\ BuiltUi.tag_ids_to_node_ids[t] = BuiltUi.draggable_tags[t]
        /\ \A t \in DOMAIN BuiltUi.tab_index_tags :
              /\ t \in DOMAIN BuiltUi.tag_ids_to_node_ids
              /\ BuiltUi.tag_ids_to_node_ids[t] = BuiltUi.tab_index_tags[t][1]

\* A node with Hover, Focus and Not callbacks, regular and default, that is
\* draggable and has a tab index was built after another tagged node: the
\* allocator went from 1 to 3 and the node is known by tag 2 everywhere.
C22_Witness ==
    /\ UiStateBuilt
    /\ TAG_ID = 3
    /\ \E n \in BuiltNodes :
          /\ MeetsEveryCondition(BuiltData(n))
          /\ TagsOfNode(BuiltUi, n) = {2}
          /\ 2 \in DOMAIN BuiltUi.draggable_tags
          /\ 2 \in DOMAIN BuiltUi.tab_index_tags

\* The tables of a category.
RegularTable(cat) ==
    CHOOSE table \in CallbackTables : TableCategory(table) = cat
DefaultTable(cat) ==
    CHOOSE table \in DefaultCallbackTables : TableCategory(table) = cat
FilterCategories == {"Hover", "Focus", "Not", "Window", "Desktop"}

\* The node's only hit-testable registration is a default callback.
DefaultOnly(data) ==
    /\ HitTestable(data.default_callback_ids)
    /\ ~HitTestable(data.callbacks)
    /\ ~data.draggable
    /\ IsNone(data.tab_index)

DistinctFilters(source, cat) ==
    { source[i][1] : i \in { j \in 1..Len(source) : FilterCategory(source[j][1]) = cat } }
\* The filter occurs more than once in `source`.
Repeated(source, filter) ==
    Cardinality({ i \in 1..Len(source) : source[i][1] = filter }) > 1

\* C29: when a node registers several callbacks under one event filter, the
\* node's sub-map in that category's table holds one entry for the filter,
\* the callback registered last; registrations under distinct filters are
\* all kept: the sub-map's size is the number of distinct filters of that
\* category on the node.
C29_DuplicateFilterLastWins ==
    UiStateBuilt =>
        \A n \in BuiltNodes, table \in CallbackTables \cup DefaultCallbackTables :
            n \in DOMAIN BuiltUi[table] =>
                /\ Cardinality(DOMAIN BuiltUi[table][n])
                      = Cardinality(DistinctFilters(TableSource(table, BuiltData(n)),
                                                    TableCategory(table)))
                /\ \A filter \in DistinctFilters(TableSource(table, BuiltData(n)),
                                                 TableCategory(table)) :
                      /\ FilterKind(filter) \in DOMAIN BuiltUi[table][n]
                      /\ BuiltUi[table][n][FilterKind(filter)]
                            = LastWith(TableSource(table, BuiltData(n)),
                                       TableCategory(table), FilterKind(filter))

\* Hover(MouseOver) was registered with cb1, then Hover(MouseDown), then
\* Hover(MouseOver) again with cb2: two entries, MouseOver holding cb2.
C29_Witness ==
    /\ UiStateBuilt
    /\ \E n \in BuiltNodes :
          /\ Repeated(BuiltData(n).callbacks, HoverFilter("MouseOver"))
          /\ Len(BuiltData(n).callbacks) = 3
          /\ n \in DOMAIN BuiltUi.hover_callbacks
          /\ BuiltUi.hover_callbacks[n] = ("MouseOver" :> "cb2") @@ ("MouseDown" :> "cb1")

\* ----------------------------------------------------------------- RaceSpec
\* Two into_ui_state calls on two threads.  TAG_ID is an AtomicUsize used
\* with SeqCst, so the calls interleave at its swap and fetch_add; a node's
\* loop body holds at most one fetch_add and is taken as one step.

\* Largest number of items of the Doms the two threads build.
MaxRaceItems == 2

RaceBuildIds == {1, 2}
RacePayloads == { NodeDataNew("Div"), [NodeDataNew("Div") EXCEPT !.draggable = TRUE] }
RaceDoms ==
    { DomFromIterNodeData(items) : items \in SeqsUpTo(RacePayloads, MaxRaceItems) }

\* A call before its `TAG_ID.swap(1, ..)`.
BuildStart(dom) ==
    [ dom |-> dom, phase |-> "start", next |-> 1, ui |-> EmptyTables,
      disturbed |-> FALSE ]

\* Build b wrote TAG_ID: every other call that is inside its loop had the
\* counter changed under it.
Disturb(bs, b) ==
    [o \in DOMAIN bs |->
        IF o # b /\ bs[o].phase = "loop"
        THEN [bs[o] EXCEPT !.disturbed = TRUE]
        ELSE bs[o]]

RaceInit ==
    /\ stack = << >>
    /\ TAG_ID \in 1..MaxTagId
    /\ ui_state = None
    /\ last_call = Call("init", None, None, << >>)
    /\ builds \in [RaceBuildIds -> { BuildStart(d) : d \in RaceDoms }]
    /\ dom_hashes = {}

\* `TAG_ID.swap(1, Ordering::SeqCst)` of call b
BuildReset ==
    \E b \in DOMAIN builds :
        /\ builds[b].phase = "start"
        /\ TAG_ID' = ResetTagId(TAG_ID)
        /\ builds' = Disturb([builds EXCEPT ![b].phase = "loop"], b)
        /\ UNCHANGED << stack, ui_state, last_call, dom_hashes >>

\* One pass of call b through the body of `for node_id in arena.linear_iter()`
BuildStep ==
    \E b \in DOMAIN builds :
        /\ builds[b].phase = "loop"
        /\ builds[b].next <= ArenaLen(builds[b].dom.arena)
        /\ \E r \in { ProcessNode([ui |-> builds[b].ui, TAG_ID |-> TAG_ID, node_tag_id |-> None],
                                  builds[b].dom.arena,
                                  LinearIter(builds[b].dom.arena)[builds[b].next]) } :
              /\ TAG_ID' = r.TAG_ID
              /\ builds' =
                    IF r.TAG_ID # TAG_ID
                    THEN Disturb([builds EXCEPT ![b].ui = r.ui, ![b].next = @ + 1], b)
                    ELSE [builds EXCEPT ![b].ui = r.ui, ![b].next = @ + 1]
        /\ UNCHANGED << stack, ui_state, last_call, dom_hashes >>

\* Call b leaves the loop and returns its UiState
BuildReturn ==
    \E b \in DOMAIN builds :
        /\ builds[b].phase = "loop"
        /\ builds[b].next > ArenaLen(builds[b].dom.arena)
        /\ builds' = [builds EXCEPT ![b].phase = "done"]
        /\ UNCHANGED << stack, TAG_ID, ui_state, last_call, dom_hashes >>

RaceNext ==
    \/ BuildReset
    \/ BuildStep
    \/ BuildReturn

RaceSpec == RaceInit /\ [][RaceNext]_vars

\* The tags of the tables are 1 .. k and the two tag maps are inverse.
TagsFrom1(ui) ==
    { ui.node_ids_to_tag_ids[n] : n \in DOMAIN ui.node_ids_to_tag_ids }
        = 1..Cardinality(DOMAIN ui.node_ids_to_tag_ids)
TagMapsInverse(ui) ==
    /\ \A t \in DOMAIN ui.tag_ids_to_node_ids :
          /\ ui.tag_ids_to_node_ids[t] \in DOMAIN ui.node_ids_to_tag_ids
          /\ ui.node_ids_to_tag_ids[ui.tag_ids_to_node_ids[t]] = t
    /\ \A n \in DOMAIN ui.node_ids_to_tag_ids :
          /\ ui.node_ids_to_tag_ids[n] \in DOMAIN ui.tag_ids_to_node_ids
          /\ ui.tag_ids_to_node_ids[ui.node_ids_to_tag_ids[n]] = n
SameTagTwice(ui) ==
    \E n, m \in DOMAIN ui.node_ids_to_tag_ids :
        n # m /\ ui.node_ids_to_tag_ids[n] = ui.node_ids_to_tag_ids[m]

\* C14: a build into whose loop no other build's reset or fetch-and-increment
\* falls returns tags 1 .. k, mutually inverse tag maps and the tables of
\* the build run alone; two builds whose steps interleave can return the
\* same tag on two nodes, tags that do not start at 1, and tag maps that are
\* not inverse (the witness).
C14_OneAtATimeIsSafe ==
    \A b \in DOMAIN builds :
        (builds[b].phase = "done" /\ ~builds[b].disturbed) =>
            /\ TagsFrom1(builds[b].ui)
            /\ TagMapsInverse(builds[b].ui)
            /\ ~SameTagTwice(builds[b].ui)
            /\ ([dom |-> builds[b].dom] @@ builds[b].ui)
                  = IntoUiState(builds[b].dom, TAG_ID).ui_state

\* Both builds returned: one gave the same tag to two nodes and its tag maps
\* are not inverse, the other's tags do not start at 1.
C14_Witness ==
    \E a, b \in DOMAIN builds :
        /\ a # b
        /\ builds[a].phase = "done"
        /\ builds[b].phase = "done"
        /\ SameTagTwice(builds[a].ui)
        /\ ~TagMapsInverse(builds[a].ui)
        /\ DOMAIN builds[b].ui.node_ids_to_tag_ids # {}
        /\ ~TagsFrom1(builds[b].ui)

\* ---------------------------------------------------------------- FaultSpec
\* into_ui_state handed a Dom whose node 0 is not a lone root.  Dom's fields
\* are pub(crate): code of the crate can put such a Dom together.

RootPointerFields == {"parent", "previous_sibling", "next_sibling"}

\* The Dom with the pointers `fields` of node 0 set to node 1.
WithRootPointers(dom, fields) ==
    [dom EXCEPT !.arena.node_layout[1] =
        [f \in PointerFields |-> IF f \in fields THEN Some(1) ELSE @[f]]]

FaultDoms ==
    { WithRootPointers(d, fields) :
        d \in { e \in UiFlatDoms : DomLen(e) >= 2 }, fields \in SUBSET RootPointerFields }
    \cup UiFlatDoms

FaultInit ==
    /\ stack \in { <<d>> : d \in FaultDoms }
    /\ TAG_ID \in 1..MaxTagId
    /\ ui_state = None
    /\ last_call = Call("init", None, None, << >>)
    /\ builds = << >>
    /\ dom_hashes = {}

FaultNext ==
    \/ IntoUiStateCall
    \/ NewScrollTagId

FaultSpec == FaultInit /\ [][FaultNext]_vars

\* Node 0 has a parent, a previous sibling or a next sibling.
RootMalformed(dom) ==
    \E f \in RootPointerFields : IsSome(NodeAt(dom, 0)[f])

\* C15: into_ui_state called on a Dom whose node 0 has a parent, a previous
\* sibling or a next sibling ends in a fault and returns no UiState.
C15_MalformedRootFaults ==
    (last_call.op = "into_ui_state" /\ RootMalformed(CallSelf))
        => (last_call.fault /\ ui_state = None)

\* ------------------------------------------------------------------ MutSpec

\* Builder chains: Dom::new(..).with_id(..).with_class(..)... on a Dom that
\* already holds children with payloads of their own.

\* Largest number of attributes a builder chain sets on the node at head.
MaxChain == 2

\* The values a chain is driven with: two of each kind, so that the order of
\* a list is visible.
ChainStrings == {"a", "b"}
ChainFilters == { HoverFilter("MouseOver"), WindowFilter("VirtualKeyDown") }
ChainCssOverrides == {<<"w", "px500">>, <<"h", "px20">>}
ChainTabIndices == {<<"Auto">>, <<"Global", 1>>}

\* The Doms a chain starts from: a lone node, and nodes with children.
ChainItems ==
    { NodeDataNew("Label"),
      [NodeDataNew("Div") EXCEPT !.ids = <<"a">>, !.draggable = TRUE] }
ChainDoms ==
    {DomNew("Div")}
        \cup { DomFromIterNodeType(<<"Div", "Label">>) }
        \cup { DomFromIterNodeData(<<i, j>>) : i, j \in ChainItems }
        \cup { AddChild(DomNew("Div"), DomFromIterNodeData(<<i>>)) : i \in ChainItems }

MutInit ==
    /\ stack \in { <<dom>> : dom \in ChainDoms }
    /\ TAG_ID = 1
    /\ ui_state = None
    /\ last_call = Call("init", None, None, << >>)
    /\ builds = << >>
    /\ dom_hashes = {}

CanChain ==
    /\ Building
    /\ stack # << >>
    /\ ~HeadOutOfBounds(Top)
    /\ AttrCount(Top.arena.node_data[Top.head + 1]) < MaxChain

WithIdCall ==
    CanChain /\ \E id \in ChainStrings : Mutate("with_id", WithId(Top, id))

WithClassCall ==
    CanChain /\ \E class \in ChainStrings : Mutate("with_class", WithClass(Top, class))

WithCallbackCall ==
    CanChain /\ \E on \in ChainFilters, cb \in Callbacks :
        Mutate("with_callback", WithCallback(Top, on, cb))

WithCssOverrideCall ==
    CanChain /\ \E override \in ChainCssOverrides :
        Mutate("with_css_override", WithCssOverride(Top, override))

WithTabIndexCall ==
    CanChain /\ \E tab_index \in ChainTabIndices :
        Mutate("with_tab_index", WithTabIndex(Top, tab_index))

IsDraggableCall ==
    CanChain /\ \E draggable \in BOOLEAN :
        Mutate("is_draggable", IsDraggable(Top, draggable))

MutNext ==
    \/ AddIdCall
    \/ AddClassCall
    \/ AddCallbackCall
    \/ AddDefaultCallbackIdCall
    \/ AddTabIndexCall
    \/ AddCssOverrideCall
    \/ SetDraggableCall
    \/ WithIdCall
    \/ WithClassCall
    \/ WithCallbackCall
    \/ WithCssOverrideCall
    \/ WithTabIndexCall
    \/ IsDraggableCall

MutSpec == MutInit /\ [][MutNext]_vars

\* The payload field each mutator is about.
MutatorField ==
    [ add_id |-> "ids", with_id |-> "ids",
      add_class |-> "classes", with_class |-> "classes",
      add_callback |-> "callbacks", with_callback |-> "callbacks",
      add_default_callback_id |-> "default_callback_ids",
      add_css_override |-> "dynamic_css_overrides",
      with_css_override |-> "dynamic_css_overrides",
      add_tab_index |-> "tab_index", with_tab_index |-> "tab_index",
      set_draggable |-> "draggable", is_draggable |-> "draggable" ]
MutatorOps == DOMAIN MutatorField
AppendingOps ==
    { "add_id", "with_id", "add_class", "with_class", "add_callback",
      "with_callback", "add_css_override", "with_css_override" }
PayloadFields == DOMAIN NodeDataDefault

MutatorReturned == last_call.op \in MutatorOps /\ ~last_call.fault

\* `after` is `before` with one more entry at its end.
AppendedOne(before, after) ==
    /\ Len(after) = Len(before) + 1
    /\ SubSeq(after, 1, Len(before)) = before

\* C17: a builder mutator (add_id, add_class, add_callback,
\* add_default_callback_id, add_css_override, add_tab_index, set_draggable
\* and the with_/is_ variants) changes only its own payload field of the node
\* at head: head, root, the node count, every topology pointer and the
\* payload of every other node stay as they were, and add_id, add_class,
\* add_callback and add_css_override put the new entry at the end of the
\* list.
C17_MutatorFrame ==
    MutatorReturned =>
        /\ Top.head = CallSelf.head
        /\ Top.root = CallSelf.root
        /\ DomLen(Top) = DomLen(CallSelf)
        /\ Top.arena.node_layout = CallSelf.arena.node_layout
        /\ \A n \in NodeIds(CallSelf) \ {CallSelf.head} :
              DataAt(Top, n) = DataAt(CallSelf, n)
        /\ \A f \in PayloadFields \ {MutatorField[last_call.op]} :
              DataAt(Top, Top.head)[f] = DataAt(CallSelf, CallSelf.head)[f]
        /\ last_call.op \in AppendingOps =>
              AppendedOne(DataAt(CallSelf, CallSelf.head)[MutatorField[last_call.op]],
                          DataAt(Top, Top.head)[MutatorField[last_call.op]])

\* A class was added to a node that had one, on a Dom whose other nodes hold
\* payloads of their own.
C17_Witness ==
    /\ MutatorReturned
    /\ last_call.op = "with_class"
    /\ DataAt(Top, Top.head).classes = <<"a", "b">>
    /\ DomLen(Top) = 3
    /\ DataAt(Top, 1).ids = <<"a">>

\* ----------------------------------------------------------------- ConvSpec

\* Callbacks registered through `On` (add_callback takes any
\* O: Into<EventFilter>, so the On value goes through From<On>), and the
\* two crate-internal conversions between filter categories.

\* Largest number of callbacks registered through On on one node.
MaxOnCallbacks == 1

ConvDoms == { DomNew("Div"), DomFromIterNodeType(<<"Label">>) }

ConvInit ==
    /\ stack \in { <<dom>> : dom \in ConvDoms }
    /\ TAG_ID = 1
    /\ ui_state = None
    /\ last_call = Call("init", None, None, << >>)
    /\ builds = << >>
    /\ dom_hashes = {}

\* A conversion called on `input`; `items` holds the value it returned.
Converted(op, input, output) ==
    [ op |-> op, self |-> Some(input), child |-> None, items |-> output,
      fault |-> FALSE ]

\* dom.add_callback(on, callback) with `on: On`
AddCallbackOnCall ==
    /\ Building
    /\ stack # << >>
    /\ ~HeadOutOfBounds(Top)
    /\ Len(Top.arena.node_data[Top.head + 1].callbacks) < MaxOnCallbacks
    /\ \E on \in OnVariants, cb \in Callbacks :
          /\ stack' = Append(Rest, AddCallback(Top, EventFilterFromOn(on), cb))
          /\ last_call' = Call("add_callback_on", Some(Top), None, <<on>>)
    /\ UNCHANGED << TAG_ID, ui_state, builds, dom_hashes >>

\* hover_filter.to_focus_event_filter()
ToFocusEventFilterCall ==
    /\ \E self \in HoverEventFilters :
          last_call' = Converted("to_focus_event_filter", self, ToFocusEventFilter(self))
    /\ UNCHANGED << stack, TAG_ID, ui_state, builds, dom_hashes >>

\* window_filter.to_hover_event_filter()
ToHoverEventFilterCall ==
    /\ \E self \in WindowEventFilters :
          last_call' = Converted("to_hover_event_filter", self, ToHoverEventFilter(self))
    /\ UNCHANGED << stack, TAG_ID, ui_state, builds, dom_hashes >>

ConvNext ==
    \/ AddCallbackOnCall
    \/ ToFocusEventFilterCall
    \/ ToHoverEventFilterCall

ConvSpec == ConvInit /\ [][ConvNext]_vars

\* The On value of the last add_callback and the filter it was stored under.
OnGiven == last_call.items[1]
FilterStored ==
    DataAt(Top, Top.head).callbacks[Len(DataAt(Top, Top.head).callbacks)][1]

\* C18: On -> EventFilter is total; TextInput, FocusReceived and FocusLost
\* become the Focus kind of the same name, VirtualKeyDown and VirtualKeyUp
\* the Window kind of the same name, every other On variant the Hover kind of
\* the same name, and no On variant becomes a Not or Desktop filter.
C18_OnToEventFilter ==
    last_call.op = "add_callback_on" =>
        /\ FilterStored \in EventFilterValues
        /\ FilterStored[1] \notin {"Not", "Desktop"}
        /\ FilterStored =
              IF OnGiven \in {"TextInput", "FocusReceived", "FocusLost"}
              THEN FocusFilter(OnGiven)
              ELSE IF OnGiven \in {"VirtualKeyDown", "VirtualKeyUp"}
              THEN WindowFilter(OnGiven)
              ELSE HoverFilter(OnGiven)

\* A callback registered on On::FocusLost sits under Focus(FocusLost).
C18_Witness ==
    /\ last_call.op = "add_callback_on"
    /\ OnGiven = "FocusLost"
    /\ FilterStored = FocusFilter("FocusLost")

\* C19: HoverEventFilter::to_focus_event_filter returns None exactly for
\* HoveredFile, DroppedFile and HoveredFileCancelled, and
\* WindowEventFilter::to_hover_event_filter returns None exactly for
\* MouseEnter and MouseLeave.
C19_ConversionsNone ==
    /\ last_call.op = "to_focus_event_filter" =>
          (IsNone(last_call.items)
              <=> CallSelf \in {"HoveredFile", "DroppedFile", "HoveredFileCancelled"})
    /\ last_call.op = "to_hover_event_filter" =>
          (IsNone(last_call.items) <=> CallSelf \in {"MouseEnter", "MouseLeave"})

\* Window MouseEnter was converted and gave no Hover filter.
C19_Witness ==
    /\ last_call.op = "to_hover_event_filter"
    /\ CallSelf = "MouseEnter"
    /\ IsNone(last_call.items)

\* C27: where they are defined, HoverEventFilter::to_focus_event_filter and
\* WindowEventFilter::to_hover_event_filter give the kind of the same name
\* in the target category, and so no other kind is converted to the value
\* returned.
C27_SameNamedKind ==
    /\ (last_call.op = "to_focus_event_filter" /\ IsSome(last_call.items)) =>
          /\ Unwrap(last_call.items) = CallSelf
          /\ \A other \in HoverEventFilters :
                ToFocusEventFilter(other) = last_call.items => other = CallSelf
    /\ (last_call.op = "to_hover_event_filter" /\ IsSome(last_call.items)) =>
          /\ Unwrap(last_call.items) = CallSelf
          /\ \A other \in WindowEventFilters :
                ToHoverEventFilter(other) = last_call.items => other = CallSelf

\* ----------------------------------------------------------------- HashSpec

\* Change detection: the hash of a node is taken while its Dom is being
\* built, after it was merged into another Dom, and after the UiState was
\* built and tags were handed out.

\* Largest number of DomHash values kept.
MaxHashes == 2

HashPayloads ==
    { [NodeDataNew("Label") EXCEPT !.ids = <<"a">>],
      [NodeDataNew("Label") EXCEPT !.ids = <<"a">>, !.draggable = TRUE],
      [NodeDataNew("Label") EXCEPT !.classes = <<"a">>],
      [NodeDataNew("Label") EXCEPT !.ids = <<"a", "b">>, !.classes = <<"a">>],
      [NodeDataNew("Label") EXCEPT !.ids = <<"b", "a">>, !.classes = <<"a">>],
      [NodeDataNew("Div") EXCEPT !.classes = <<"a">>,
                                 !.callbacks = <<<<HoverFilter("MouseOver"), "cb1">>>>,
                                 !.tab_index = Some(<<"Global", 1>>)] }
HashDoms ==
    {DomNew("Div")} \cup { DomFromIterNodeData(<<p>>) : p \in HashPayloads }

HashInit ==
    /\ stack \in { <<self, child>> : self, child \in HashDoms }
    /\ TAG_ID = 1
    /\ ui_state = None
    /\ last_call = Call("init", None, None, << >>)
    /\ builds = << >>
    /\ dom_hashes = {}

\* The DomHash of node `node_id` of `dom`, kept with the place it was taken.
HashTaken(dom, node_id) ==
    [ data |-> DataAt(dom, node_id),
      hash |-> CalculateNodeDataHash(DataAt(dom, node_id)),
      writes |-> HashNodeData(DataAt(dom, node_id)),
      node_id |-> node_id, len |-> DomLen(dom), TAG_ID |-> TAG_ID ]

\* dom.arena.node_data[node_id].calculate_node_data_hash()
CalculateNodeDataHashCall ==
    /\ Cardinality(dom_hashes) < MaxHashes
    /\ \E dom \in LiveDoms :
          \E node_id \in NodeIds(dom) :
              /\ dom_hashes' = dom_hashes \cup {HashTaken(dom, node_id)}
              /\ last_call' = Call("calculate_node_data_hash", Some(dom), None, <<node_id>>)
    /\ UNCHANGED << stack, TAG_ID, ui_state, builds >>

HashNext ==
    \/ AddChildCall
    \/ IntoUiStateCall
    \/ NewScrollTagId
    \/ CalculateNodeDataHashCall

HashSpec == HashInit /\ [][HashNext]_vars

\* C20: the structural hash is a function of the payload alone: payloads
\* equal under NodeData equality hash equal, whatever the node index, the
\* arena size and the tag counter were when the hash was taken, and whether
\* the Dom was merged in between; a node alive now with such a payload
\* hashes to the value kept.
C20_HashOfPayload ==
    \A taken \in dom_hashes :
        /\ \A other \in dom_hashes :
              NodeDataEq(taken.data, other.data) => taken.hash = other.hash
        /\ \A dom \in LiveDoms :
              \A node_id \in NodeIds(dom) :
                  NodeDataEq(taken.data, DataAt(dom, node_id))
                      => CalculateNodeDataHash(DataAt(dom, node_id)) = taken.hash

\* The same payload was hashed before and after a merge and a build: at
\* another index, in an arena of another size, at another tag counter.
C20_Witness ==
    \E taken, other \in dom_hashes :
        /\ NodeDataEq(taken.data, other.data)
        /\ taken.data.ids = <<"a">>
        /\ taken.node_id # other.node_id
        /\ taken.len # other.len
        /\ taken.TAG_ID # other.TAG_ID
        /\ ui_state # None
        /\ taken.hash = other.hash

\* Two hashed nodes agree on element kind, ids and classes (each in order)
\* and neither has a callback.
SameKindIdsClasses(a, b) ==
    /\ a.node_type = b.node_type
    /\ a.ids = b.ids
    /\ a.classes = b.classes
    /\ a.callbacks = << >>
    /\ b.callbacks = << >>
\* ... and they agree on the fields the sentence does not name.
SameOtherFields(a, b) ==
    /\ a.default_callback_ids = b.default_callback_ids
    /\ a.dynamic_css_overrides = b.dynamic_css_overrides
    /\ a.draggable = b.draggable
    /\ a.tab_index = b.tab_index
\* b is a with its two distinct ids swapped, all else equal.
IdsSwapped(a, b) ==
    /\ Len(a.ids) = 2
    /\ a.ids[1] # a.ids[2]
    /\ b = [a EXCEPT !.ids = <<a.ids[2], a.ids[1]>>]

\* C21 as stated: two nodes with the same element kind, the same ids and
\* classes in the same order and no callbacks hash equal, and swapping two
\* distinct ids changes the sequence of values fed to the hasher.
C21_AsStated ==
    \A taken, other \in dom_hashes :
        /\ SameKindIdsClasses(taken.data, other.data) => taken.hash = other.hash
        /\ IdsSwapped(taken.data, other.data) => taken.writes # other.writes

\* C21, amended: two nodes with the same element kind, the same ids and
\* classes in the same order, no callbacks and the same default-callback
\* ids, style overrides, draggable flag and tab index hash equal, and
\* swapping two distinct ids changes the sequence of values fed to the
\* hasher.
C21_HashOrderSensitive ==
    \A taken, other \in dom_hashes :
        /\ (SameKindIdsClasses(taken.data, other.data)
                /\ SameOtherFields(taken.data, other.data))
              => taken.hash = other.hash
        /\ IdsSwapped(taken.data, other.data) => taken.writes # other.writes

\* A node with ids [a, b] and the node with ids [b, a] were both hashed, and
\* so was one node at two places.
C21_Witness ==
    \E taken, other \in dom_hashes :
        /\ taken.data.ids = <<"a", "b">>
        /\ IdsSwapped(taken.data, other.data)
        /\ taken.writes # other.writes
        /\ taken.hash # other.hash

\* C28: two payloads unequal under NodeData equality feed different
\* sequences of values to the hasher; in particular ids = [s], classes = []
\* and ids = [], classes = [s] do.
C28_HashSeparatesFields ==
    \A taken, other \in dom_hashes :
        ~NodeDataEq(taken.data, other.data) => taken.writes # other.writes

====
